---- MODULE Spec2Model ----
(***************************************************************************)
(* The experience-section extraction engine of ResumeParser_pjt            *)
(* (backend/core/nlp_processor.py, NLPProcessor.extract_experience and the *)
(* four strategies it calls), as a state machine over character strings.   *)
(* Strings are TLA+ strings; positions are 0-based as in Python, and -1 is *)
(* str.find's "not found".                                                 *)
(***************************************************************************)
EXTENDS Integers, Sequences, FiniteSets, TLC

(***************************************************************************)
(* Python str operations                                                   *)
(***************************************************************************)

\* s[i] for a 0-based i inside the string
At(s, i) == SubSeq(s, i + 1, i + 1)

\* s[a:b] for 0 <= a: a slice never fails, it is clipped to the string
Slice(s, a, b) == SubSeq(s, a + 1, IF b < Len(s) THEN b ELSE Len(s))

\* s[a:]
From(s, a) == SubSeq(s, a + 1, Len(s))

\* what str.strip() removes and \s matches, among the characters in use
Whitespace == {" ", "\t", "\n", "\r", "\f"}

Digits == {"0", "1", "2", "3", "4", "5", "6", "7", "8", "9"}

UpperOf ==
  [a |-> "A", b |-> "B", c |-> "C", d |-> "D", e |-> "E", f |-> "F", g |-> "G",
   h |-> "H", i |-> "I", j |-> "J", k |-> "K", l |-> "L", m |-> "M", n |-> "N",
   o |-> "O", p |-> "P", q |-> "Q", r |-> "R", s |-> "S", t |-> "T", u |-> "U",
   v |-> "V", w |-> "W", x |-> "X", y |-> "Y", z |-> "Z"]

LowerOf ==
  [A |-> "a", B |-> "b", C |-> "c", D |-> "d", E |-> "e", F |-> "f", G |-> "g",
   H |-> "h", I |-> "i", J |-> "j", K |-> "k", L |-> "l", M |-> "m", N |-> "n",
   O |-> "o", P |-> "p", Q |-> "q", R |-> "r", S |-> "s", T |-> "t", U |-> "u",
   V |-> "v", W |-> "w", X |-> "x", Y |-> "y", Z |-> "z"]

LowerLetters == DOMAIN UpperOf

UpperLetters == DOMAIN LowerOf

Letters == LowerLetters \cup UpperLetters

\* the letter sharp s (U+00DF), written with a character of the ASCII range; it
\* is a lower-case letter whose upper-case form is the two letters SS
SharpS == "$"

\* str.upper() of one character
UpperCh(c) ==
  IF c \in LowerLetters THEN UpperOf[c] ELSE IF c = SharpS THEN "SS" ELSE c

\* str.lower() of one character
LowerCh(c) == IF c \in UpperLetters THEN LowerOf[c] ELSE c

RECURSIVE MapChars(_, _, _, _)
\* the characters s[a:b], each replaced by Op of it (by halves: the depth stays small)
MapChars(Op(_), s, a, b) ==
  IF b <= a THEN ""
  ELSE IF b = a + 1 THEN Op(At(s, a))
  ELSE LET mid == (a + b) \div 2
       IN  MapChars(Op, s, a, mid) \o MapChars(Op, s, mid, b)

\* str.upper()
Upper(s) == MapChars(UpperCh, s, 0, Len(s))

\* str.lower()
Lower(s) == MapChars(LowerCh, s, 0, Len(s))

\* s.startswith(sub), and s[p:].startswith(sub)
StartsAt(s, sub, p) == Slice(s, p, p + Len(sub)) = sub

StartsWith(s, sub) == StartsAt(s, sub, 0)

RECURSIVE First(_, _, _)
\* the least x of a..(b - 1) with P(x), or b when there is none; the search is
\* by halves, left half first, so that its depth stays small
First(P(_), a, b) ==
  IF b <= a THEN b
  ELSE IF b = a + 1 THEN (IF P(a) THEN a ELSE b)
  ELSE LET mid == (a + b) \div 2
           left == First(P, a, mid)
       IN  IF left < mid THEN left ELSE First(P, mid, b)

RECURSIVE Last(_, _, _)
\* the greatest x of a..(b - 1) with P(x), or a - 1 when there is none
Last(P(_), a, b) ==
  IF b <= a THEN a - 1
  ELSE IF b = a + 1 THEN (IF P(a) THEN a ELSE a - 1)
  ELSE LET mid == (a + b) \div 2
           right == Last(P, mid, b)
       IN  IF right >= mid THEN right ELSE Last(P, a, mid)

\* s.find(sub, start): the least offset >= start at which sub occurs, or -1
Find(s, sub, start) ==
  LET end == Len(s) - Len(sub) + 1
      p == First(LAMBDA q : StartsAt(s, sub, q), start, end)
  IN  IF end <= start \/ p >= end THEN -1 ELSE p

\* sub in s
Contains(s, sub) == Find(s, sub, 0) # -1

\* s.strip(): from the first to the last character that is not whitespace
Strip(s) ==
  LET a == First(LAMBDA p : At(s, p) \notin Whitespace, 0, Len(s))
      b == Last(LAMBDA p : At(s, p) \notin Whitespace, 0, Len(s))
  IN  IF a >= Len(s) THEN "" ELSE Slice(s, a, b + 1)

RECURSIVE Split(_, _)
\* s.split(sep) for a non-empty sep: cut at each occurrence, left to right
Split(s, sep) ==
  LET p == Find(s, sep, 0)
  IN  IF p = -1 THEN <<s>>
      ELSE <<Slice(s, 0, p)>> \o Split(From(s, p + Len(sep)), sep)

(***************************************************************************)
(* Python re: a backtracking matcher.  A pattern is a sequence of atoms: a *)
(* literal string, a repetition of one character class, a repetition of a  *)
(* sub-pattern, a choice of sub-patterns, and the two ends of a capturing  *)
(* group.  Match takes the atoms still to be matched and returns the first *)
(* match in the order in which a backtracking engine tries them: a greedy  *)
(* repetition takes the most it can and gives back one at a time, and the  *)
(* alternatives of a choice are tried left to right.                       *)
(***************************************************************************)

\* the upper count of a repetition that has none
Unbounded == -1

Atom(t, cs, neg, min, max, rs, k, lit) ==
  [t |-> t, cs |-> cs, neg |-> neg, min |-> min, max |-> max, rs |-> rs,
   k |-> k, lit |-> lit]

\* [abc]
In(cs) == <<Atom("rep", cs, FALSE, 1, 1, <<>>, 0, "")>>

\* [^abc]
NotIn(cs) == <<Atom("rep", cs, TRUE, 1, 1, <<>>, 0, "")>>

\* a literal string
Lit(lit) == <<Atom("str", {}, FALSE, 0, 0, <<>>, 0, lit)>>

\* r1|r2|...
Alt(rs) == <<Atom("alt", {}, FALSE, 0, 0, rs, 0, "")>>

\* whether r is one character class, taken once
IsClass(r) == Len(r) = 1 /\ r[1].t = "rep" /\ r[1].min = 1 /\ r[1].max = 1

\* r*  (greedy)
Star(r) ==
  IF IsClass(r) THEN <<[r[1] EXCEPT !.min = 0, !.max = Unbounded]>>
  ELSE <<Atom("star", {}, FALSE, 0, Unbounded, r, 0, "")>>

\* r+  (greedy)
Plus(r) ==
  IF IsClass(r) THEN <<[r[1] EXCEPT !.min = 1, !.max = Unbounded]>>
  ELSE r \o Star(r)

\* r{count} for a character class r
Times(r, count) == <<[r[1] EXCEPT !.min = count, !.max = count]>>

\* (r), the k-th capturing group
Group(k, r) ==
  <<Atom("open", {}, FALSE, 0, 0, <<>>, k, "")>> \o r
    \o <<Atom("close", {}, FALSE, 0, 0, <<>>, k, "")>>

\* \s
WS == In(Whitespace)

\* \d
Digit == In(Digits)

NoMatch == [ok |-> FALSE, start |-> 0, end |-> 0, caps |-> <<>>]

RECURSIVE Match(_, _, _, _, _)
RECURSIVE Halves(_, _, _, _, _, _)
\* the match of stk from the greatest offset of a..b from which it matches
Halves(stk, s, p0, caps, a, b) ==
  CASE a > b -> NoMatch
    [] a = b -> Match(stk, s, p0, a, caps)
    [] a < b ->
         LET mid == (a + b + 1) \div 2
             right == Halves(stk, s, p0, caps, mid, b)
         IN  IF right.ok THEN right ELSE Halves(stk, s, p0, caps, a, mid - 1)

\* the end of the run of characters of class c from offset i, at most c.max long
RunEnd(c, s, i) ==
  First(LAMBDA j : (At(s, j) \in c.cs) = c.neg, i,
        IF c.max = Unbounded \/ i + c.max > Len(s) THEN Len(s) ELSE i + c.max)

\* the match of the atoms stk at offset i of s; p0 is where the match started
Match(stk, s, p0, i, caps) ==
  CASE Len(stk) = 0 -> [ok |-> TRUE, start |-> p0, end |-> i, caps |-> caps]
    [] Len(stk) > 0 /\ Head(stk).t = "str" ->
         IF StartsAt(s, Head(stk).lit, i)
         THEN Match(Tail(stk), s, p0, i + Len(Head(stk).lit), caps)
         ELSE NoMatch
    [] Len(stk) > 0 /\ Head(stk).t = "rep" /\ Head(stk).min = Head(stk).max ->
         IF RunEnd(Head(stk), s, i) = i + Head(stk).min
         THEN Match(Tail(stk), s, p0, i + Head(stk).min, caps)
         ELSE NoMatch
    [] Len(stk) > 0 /\ Head(stk).t = "rep" /\ Head(stk).min # Head(stk).max ->
         \* greedy: the whole run first, then one character less at a time
         LET stop == RunEnd(Head(stk), s, i)
             top == Match(Tail(stk), s, p0, stop, caps)
         IN  CASE stop < i + Head(stk).min -> NoMatch
               [] top.ok -> top
               [] OTHER -> Halves(Tail(stk), s, p0, caps, i + Head(stk).min, stop - 1)
    [] Len(stk) > 0 /\ Head(stk).t = "star" ->
         LET more == Match(Head(stk).rs \o stk, s, p0, i, caps)
         IN  IF more.ok THEN more ELSE Match(Tail(stk), s, p0, i, caps)
    [] Len(stk) > 0 /\ Head(stk).t = "alt" ->
         LET first == Match(Head(Head(stk).rs) \o Tail(stk), s, p0, i, caps)
         IN  IF first.ok \/ Len(Head(stk).rs) = 1 THEN first
             ELSE Match(Alt(Tail(Head(stk).rs)) \o Tail(stk), s, p0, i, caps)
    [] Len(stk) > 0 /\ Head(stk).t = "open" ->
         Match(Tail(stk), s, p0, i, [caps EXCEPT ![Head(stk).k] = <<i, i>>])
    [] Len(stk) > 0 /\ Head(stk).t = "close" ->
         Match(Tail(stk), s, p0, i,
               [caps EXCEPT ![Head(stk).k] = <<caps[Head(stk).k][1], i>>])

RECURSIVE Leftmost(_, _, _, _, _)
\* the match of re from the least start of a..b from which it matches
Leftmost(re, ngroups, s, a, b) ==
  CASE a > b -> NoMatch
    [] a = b -> Match(re, s, a, a, [k \in 1..ngroups |-> <<0, 0>>])
    [] a < b ->
         LET mid == (a + b) \div 2
             left == Leftmost(re, ngroups, s, a, mid)
         IN  IF left.ok THEN left ELSE Leftmost(re, ngroups, s, mid + 1, b)

RECURSIVE HasLiterals(_, _, _)
\* whether the literal strings among the atoms rs occur in s[p:], in this order
HasLiterals(rs, s, p) ==
  CASE Len(rs) = 0 -> TRUE
    [] Len(rs) > 0 /\ Head(rs).t = "str" ->
         /\ Find(s, Head(rs).lit, p) # -1
         /\ HasLiterals(Tail(rs), s, Find(s, Head(rs).lit, p) + Len(Head(rs).lit))
    [] OTHER -> HasLiterals(Tail(rs), s, p)

\* re.search(pattern, s) from offset p: the match at the leftmost start.  A
\* match holds the pattern's literal strings in order, so without them there
\* is none and no start is tried
Search(re, ngroups, s, p) ==
  IF p > Len(s) \/ ~HasLiterals(re, s, p) THEN NoMatch
  ELSE Leftmost(re, ngroups, s, p, Len(s))

\* match.group(k)
GroupOf(s, m, k) == Slice(s, m.caps[k][1], m.caps[k][2])

\* match.groups()
Groups(s, m) == [k \in 1..Len(m.caps) |-> GroupOf(s, m, k)]

RECURSIVE FindAllFrom(_, _, _, _)
FindAllFrom(re, ngroups, s, p) ==
  LET m == Search(re, ngroups, s, p)
  IN  IF ~m.ok THEN <<>>
      ELSE <<Groups(s, m)>>
             \o FindAllFrom(re, ngroups, s, IF m.end > m.start THEN m.end ELSE m.end + 1)

\* re.findall(pattern, s): the groups of the non-overlapping matches, left to right
FindAll(re, ngroups, s) == FindAllFrom(re, ngroups, s, 0)

RECURSIVE SubEmptyFrom(_, _, _)
SubEmptyFrom(re, s, p) ==
  LET m == Search(re, 0, s, p)
  IN  IF ~m.ok THEN From(s, p)
      ELSE Slice(s, p, m.start)
             \o SubEmptyFrom(re, s, IF m.end > m.start THEN m.end ELSE m.end + 1)

\* re.sub(pattern, '', s)
SubEmpty(re, s) == SubEmptyFrom(re, s, 0)

RECURSIVE SubFrom(_, _, _, _)
SubFrom(re, repl, s, p) ==
  LET m == Search(re, 0, s, p)
  IN  IF ~m.ok THEN From(s, p)
      ELSE Slice(s, p, m.start) \o repl
             \o (IF m.end > m.start THEN SubFrom(re, repl, s, m.end)
                 ELSE IF m.end < Len(s)
                 THEN At(s, m.end) \o SubFrom(re, repl, s, m.end + 1)
                 ELSE "")

\* re.sub(pattern, repl, s) for a replacement without group references
Sub(re, repl, s) == SubFrom(re, repl, s, 0)

(***************************************************************************)
(* The patterns of the four strategies                                     *)
(***************************************************************************)

\* [A-Z][a-z]+(?:\s+[A-Z][a-z]+)*
TitleCase ==
  In(UpperLetters) \o Plus(In(LowerLetters))
    \o Star(Plus(WS) \o In(UpperLetters) \o Plus(In(LowerLetters)))

\* 20XX|\d{4}
Year == Alt(<<Lit("20XX"), Times(Digit, 4)>>)

\* ([^|]+)\s*\|\s*([^(]+)\s*\(([^)]+)\)
pipe_pattern ==
  Group(1, Plus(NotIn({"|"}))) \o Star(WS) \o Lit("|") \o Star(WS)
    \o Group(2, Plus(NotIn({"("}))) \o Star(WS) \o Lit("(")
    \o Group(3, Plus(NotIn({")"}))) \o Lit(")")

\* the dictionary of one job entry
Entry(title, company, start_date, end_date, location) ==
  [title |-> title, company |-> company, start_date |-> start_date,
   end_date |-> end_date, location |-> location, description |-> ""]

\* a variant that splits on a single space
SplitTitleCompanyOnSpace(title_company, other) ==
  IF Contains(title_company, " ")
  THEN LET parts == Split(title_company, " ")
       IN  <<Strip(parts[1]), Strip(parts[2])>>
  ELSE <<title_company, other>>

\* the title/company split on a double space; other is the company when there is none
SplitTitleCompany(title_company, other) ==
  IF Contains(title_company, "  ")
  THEN LET parts == Split(title_company, "  ")
       IN  IF Len(parts) >= 2
           THEN <<Strip(parts[1]), Strip(parts[2])>>
           ELSE <<title_company, other>>
  ELSE <<title_company, other>>

\* a variant that takes the text before the last hyphen of a range with Present
ParseDateRangeLastDash(date_range) ==
  IF Contains(date_range, "Present")
  THEN LET dates == Split(date_range, "-")
       IN  <<Strip(SubSeq(date_range, 1,
                          Len(date_range) - Len(dates[Len(dates)])
                            - (IF Len(dates) > 1 THEN 1 ELSE 0))),
             "Present">>
  ELSE LET dates == Split(date_range, "-")
       IN  IF Len(dates) = 2
           THEN <<Strip(dates[1]), Strip(dates[2])>>
           ELSE <<date_range, "">>

\* the date range of a pipe-format line
ParseDateRange(date_range) ==
  IF Contains(date_range, "Present")
  THEN <<Strip(Split(date_range, "-")[1]), "Present">>
  ELSE LET dates == Split(date_range, "-")
       IN  IF Len(dates) = 2
           THEN <<Strip(dates[1]), Strip(dates[2])>>
           ELSE <<date_range, "">>

\* a variant that reads the dates from the parenthesised group
PipeEntryDatesInParentheses(match) ==
  LET title_company == Strip(match[1])
      date_range == Strip(match[2])
      location == Strip(match[3])
      tc == SplitTitleCompany(title_company, "")
      dr == ParseDateRange(location)
  IN  Entry(tc[1], tc[2], dr[1], dr[2], location)

\* the entry of one match of pipe_pattern
PipeEntry(match) ==
  LET title_company == Strip(match[1])
      date_range == Strip(match[2])
      location == Strip(match[3])
      tc == SplitTitleCompany(title_company, "")
      dr == ParseDateRange(date_range)
  IN  Entry(tc[1], tc[2], dr[1], dr[2], location)

extract_with_pipe_format(experience_block) ==
  LET matches == FindAll(pipe_pattern, 3, experience_block)
  IN  [j \in 1..Len(matches) |-> PipeEntry(matches[j])]

\* (20XX|\d{4})\s+Present\s+(TitleCase)\s+(TitleCase)\s+(TitleCase)
date_pattern_present ==
  Group(1, Year) \o Plus(WS) \o Lit("Present") \o Plus(WS)
    \o Group(2, TitleCase) \o Plus(WS) \o Group(3, TitleCase) \o Plus(WS)
    \o Group(4, TitleCase)

\* (20XX|\d{4})\s+(20XX|\d{4})\s+(TitleCase)\s+(TitleCase)\s+(TitleCase)
date_pattern_years ==
  Group(1, Year) \o Plus(WS) \o Group(2, Year) \o Plus(WS)
    \o Group(3, TitleCase) \o Plus(WS) \o Group(4, TitleCase) \o Plus(WS)
    \o Group(5, TitleCase)

\* the entry of one match of a date-first pattern: 4 groups or 5 groups
DateFirstEntry(match) ==
  IF Len(match) = 4
  THEN LET tc == SplitTitleCompany(Strip(match[2]), match[3])
       IN  <<Entry(tc[1], tc[2], match[1], "Present", match[4])>>
  ELSE IF Len(match) = 5
  THEN LET tc == SplitTitleCompany(Strip(match[3]), match[4])
       IN  <<Entry(tc[1], tc[2], match[1], match[2], match[5])>>
  ELSE <<>>

RECURSIVE FlatMap(_, _)
\* the entries of a list of matches, in match order: Op gives each match's entries
FlatMap(Op(_), matches) ==
  IF Len(matches) = 0 THEN <<>>
  ELSE Op(Head(matches)) \o FlatMap(Op, Tail(matches))

\* a variant that scans for the pattern with two years first
extract_with_date_first_format_years_first(experience_block) ==
  FlatMap(DateFirstEntry, FindAll(date_pattern_years, 5, experience_block))
    \o FlatMap(DateFirstEntry, FindAll(date_pattern_present, 4, experience_block))

extract_with_date_first_format(experience_block) ==
  FlatMap(DateFirstEntry, FindAll(date_pattern_present, 4, experience_block))
    \o FlatMap(DateFirstEntry, FindAll(date_pattern_years, 5, experience_block))

\* the bullet character U+2022, written '*' (the texts hold no other asterisk)
Bullet == "*"

Months ==
  <<"January", "February", "March", "April", "May", "June", "July", "August",
    "September", "October", "November", "December">>

\* ([^,]+),\s+([^(]+)\s+([^-]+)-([^-]+)
pattern3 ==
  Group(1, Plus(NotIn({","}))) \o Lit(",") \o Plus(WS)
    \o Group(2, Plus(NotIn({"("}))) \o Plus(WS)
    \o Group(3, Plus(NotIn({"-"}))) \o Lit("-") \o Group(4, Plus(NotIn({"-"})))

\* ([^-]+)-\s*([^(]+)\s*\(([^-]+)-([^)]+)\)
pattern4 ==
  Group(1, Plus(NotIn({"-"}))) \o Lit("-") \o Star(WS)
    \o Group(2, Plus(NotIn({"("}))) \o Star(WS) \o Lit("(")
    \o Group(3, Plus(NotIn({"-"}))) \o Lit("-") \o Group(4, Plus(NotIn({")"})))
    \o Lit(")")

\* ([^-]+)-\s*([^-]+)
pattern5 ==
  Group(1, Plus(NotIn({"-"}))) \o Lit("-") \o Star(WS)
    \o Group(2, Plus(NotIn({"-"})))

\* \s+[A-Za-z]+\s+\d{4}
month_year_pattern ==
  Plus(WS) \o Plus(In(Letters)) \o Plus(WS) \o Times(Digit, 4)

\* a variant that does not look for the word Built
IsDescriptionLineButBuilt(line) ==
  \/ StartsWith(line, Bullet)
  \/ StartsWith(line, "-")
  \/ Contains(line, "Developed")
  \/ Contains(line, "Integrated")
  \/ Contains(line, "Increased")
  \/ Contains(line, "Deployed")
  \/ Contains(line, "Handled")
  \/ Contains(line, "Summarize")
  \/ Contains(Lower(line), "responsibilities")
  \/ Contains(Lower(line), "passionate")
  \/ Contains(Lower(line), "building")
  \/ Len(line) > 100

\* the lines the line-by-line strategy skips as descriptions
IsDescriptionLine(line) ==
  \/ StartsWith(line, Bullet)
  \/ StartsWith(line, "-")
  \/ Contains(line, "Developed")
  \/ Contains(line, "Built")
  \/ Contains(line, "Integrated")
  \/ Contains(line, "Increased")
  \/ Contains(line, "Deployed")
  \/ Contains(line, "Handled")
  \/ Contains(line, "Summarize")
  \/ Contains(Lower(line), "responsibilities")
  \/ Contains(Lower(line), "passionate")
  \/ Contains(Lower(line), "building")
  \/ Len(line) > 100

\* title with a leading artifact removed
DropPrefix(title, prefix) ==
  IF StartsWith(title, prefix) THEN Strip(From(title, Len(prefix))) ELSE title

\* the company name inside the second group of pattern3
CompanyOf(company_date) ==
  IF Contains(company_date, "20XX")
  THEN Strip(Split(company_date, "20XX")[1])
  ELSE IF \E j \in 1..Len(Months) : Contains(company_date, Months[j])
  THEN Strip(SubEmpty(month_year_pattern, company_date))
  ELSE company_date

\* a line matched by pattern3: "JobTitle, Company Date - Date"
Pattern3Entry(line, m) ==
  LET title == DropPrefix(Strip(GroupOf(line, m, 1)), "e ")
      company_date == Strip(GroupOf(line, m, 2))
      start_date == Strip(GroupOf(line, m, 3))
      end_date == Strip(GroupOf(line, m, 4))
      company == CompanyOf(company_date)
  IN  IF /\ Len(title) > 3
         /\ Len(company) > 3
         /\ ~Contains(company_date, "Summarize")
         /\ ~Contains(company_date, "responsibilities")
         /\ Len(company_date) < 50
      THEN <<Entry(title, company, start_date, end_date, "")>>
      ELSE <<>>

\* a line matched by pattern4: "JobTitle - Company (Date - Present)"
Pattern4Entry(line, m) ==
  LET title == DropPrefix(Strip(GroupOf(line, m, 1)), "ce: ")
      company == Strip(GroupOf(line, m, 2))
      start_date == Strip(GroupOf(line, m, 3))
      end_date == Strip(GroupOf(line, m, 4))
  IN  IF /\ Len(title) > 3
         /\ Len(company) > 3
         /\ ~Contains(company, "Developed")
         /\ Len(company) < 50
      THEN <<Entry(title, company, start_date, end_date, "")>>
      ELSE <<>>

\* a variant that accepts any title
Pattern5EntryAnyTitle(line, m) ==
  LET title == DropPrefix(Strip(GroupOf(line, m, 1)), "e: ")
      company == Strip(GroupOf(line, m, 2))
  IN  IF /\ Len(title) > 3
         /\ Len(company) > 3
         /\ ~Contains(company, "Built")
         /\ ~Contains(company, "Integrated")
         /\ Len(company) < 50
      THEN <<Entry(title, company, "", "", "")>>
      ELSE <<>>

\* a line matched by pattern5: "JobTitle - Company"
Pattern5Entry(line, m) ==
  LET title == DropPrefix(Strip(GroupOf(line, m, 1)), "e: ")
      company == Strip(GroupOf(line, m, 2))
  IN  IF /\ Len(title) > 3
         /\ Len(company) > 3
         /\ \/ Contains(title, "Intern")
            \/ Contains(title, "Developer")
            \/ Contains(title, "Engineer")
            \/ Contains(title, "Manager")
            \/ Contains(title, "Assistant")
            \/ Contains(title, "Specialist")
         /\ ~Contains(company, "Built")
         /\ ~Contains(company, "Integrated")
         /\ Len(company) < 50
      THEN <<Entry(title, company, "", "", "")>>
      ELSE <<>>

\* one iteration of the loop over the lines: the entries the line adds
LineEntries(raw_line) ==
  LET line == Strip(raw_line)
      match3 == Search(pattern3, 4, line, 0)
      match4 == Search(pattern4, 4, line, 0)
      match5 == Search(pattern5, 2, line, 0)
  IN  IF line = "" THEN <<>>
      ELSE IF IsDescriptionLine(line) THEN <<>>
      ELSE IF match3.ok THEN Pattern3Entry(line, match3)
      ELSE IF match4.ok THEN Pattern4Entry(line, match4)
      ELSE IF match5.ok THEN Pattern5Entry(line, match5)
      ELSE <<>>

extract_with_line_by_line_processing(experience_block) ==
  FlatMap(LineEntries, Split(experience_block, "\n"))

\* (TitleCase),\s+(TitleCase)\s+([A-Za-z]+\s+20XX)\s*-\s*([A-Za-z]+\s+20XX|Current)
job_pattern_resume3 ==
  Group(1, TitleCase) \o Lit(",") \o Plus(WS) \o Group(2, TitleCase) \o Plus(WS)
    \o Group(3, Plus(In(Letters)) \o Plus(WS) \o Lit("20XX"))
    \o Star(WS) \o Lit("-") \o Star(WS)
    \o Group(4, Alt(<<Plus(In(Letters)) \o Plus(WS) \o Lit("20XX"),
                      Lit("Current")>>))

\* (TitleCase)\s*-\s*(TitleCase)\s*\(([A-Za-z]+\s+\d{4})\s*-\s*Present\)
job_pattern_resume4 ==
  Group(1, TitleCase) \o Star(WS) \o Lit("-") \o Star(WS) \o Group(2, TitleCase)
    \o Star(WS) \o Lit("(")
    \o Group(3, Plus(In(Letters)) \o Plus(WS) \o Times(Digit, 4))
    \o Star(WS) \o Lit("-") \o Star(WS) \o Lit("Present") \o Lit(")")

\* (TitleCase)\s*-\s*(TitleCase)
job_pattern_resume5 ==
  Group(1, TitleCase) \o Star(WS) \o Lit("-") \o Star(WS) \o Group(2, TitleCase)

\* a variant that counts an assistant as a role
HasRoleKeywordOrAssistant(title) ==
  \/ Contains(title, "Intern")
  \/ Contains(title, "Developer")
  \/ Contains(title, "Engineer")
  \/ Contains(title, "Manager")
  \/ Contains(title, "Assistant")

\* the role keywords a title of the whole-text fallback must contain
HasRoleKeyword(title) ==
  \/ Contains(title, "Intern")
  \/ Contains(title, "Developer")
  \/ Contains(title, "Engineer")
  \/ Contains(title, "Manager")

\* the entry of one match of a job pattern: 4 groups or 2 groups, nothing for 3
FallbackEntry(match) ==
  IF Len(match) = 4
  THEN IF HasRoleKeyword(match[1])
       THEN <<Entry(Strip(match[1]), Strip(match[2]), Strip(match[3]),
                    Strip(match[4]), "")>>
       ELSE <<>>
  ELSE IF Len(match) = 2
  THEN IF HasRoleKeyword(match[1])
       THEN <<Entry(Strip(match[1]), Strip(match[2]), "", "", "")>>
       ELSE <<>>
  ELSE <<>>

extract_experience_from_entire_text(full_text) ==
  FlatMap(FallbackEntry, FindAll(job_pattern_resume3, 4, full_text))
    \o FlatMap(FallbackEntry, FindAll(job_pattern_resume4, 3, full_text))
    \o FlatMap(FallbackEntry, FindAll(job_pattern_resume5, 2, full_text))

(***************************************************************************)
(* The section locator and its scoring (extract_experience, lines 118-191) *)
(***************************************************************************)

experience_headers ==
  <<"PROFESSIONAL EXPERIENCE", "EXPERIENCE", "WORK HISTORY", "EMPLOYMENT",
    "WORK EXPERIENCE", "EMPLOYMENT HISTORY", "CAREER HISTORY", "JOB HISTORY">>

next_sections == <<"Education", "Skills", "Projects", "Certifications">>

job_keywords ==
  <<"manager", "engineer", "developer", "intern", "assistant", "specialist",
    "analyst">>

summary_keywords ==
  <<"summary", "passionate", "building", "developing", "experience in">>

\* a variant that finds the markers in any case
NextSectionPosAnyCase(after_header) ==
  LET found == {Find(Upper(after_header), Upper(next_sections[j]), 0) :
                  j \in 1..Len(next_sections)} \ {-1}
  IN  IF found = {} THEN -1 ELSE CHOOSE x \in found : \A y \in found : x <= y

\* the offset in after_header of the earliest next-section marker, or -1
NextSectionPos(after_header) ==
  LET found == {Find(after_header, next_sections[j], 0) : j \in 1..Len(next_sections)}
                 \ {-1}
  IN  IF found = {} THEN -1 ELSE CHOOSE x \in found : \A y \in found : x <= y

\* the block of the header occurrence at offset pos
SectionText(full_text, header, pos) ==
  LET after_header == From(full_text, pos + Len(header))
      next_section_pos == NextSectionPos(after_header)
  IN  IF next_section_pos # -1
      THEN Strip(Slice(after_header, 0, next_section_pos))
      ELSE Strip(after_header)

RECURSIVE CountOccurrences(_, _, _)
\* str.count from offset start on: the non-overlapping occurrences of sub in s
CountOccurrences(s, sub, start) ==
  LET pos == Find(s, sub, start)
  IN  IF pos = -1 THEN 0 ELSE 1 + CountOccurrences(s, sub, pos + Len(sub))

RECURSIVE OccurrenceCount(_, _)
\* a variant that counts every occurrence of every keyword
OccurrenceCount(keywords, section_text) ==
  IF Len(keywords) = 0 THEN 0
  ELSE CountOccurrences(Lower(section_text), Head(keywords), 0)
         + OccurrenceCount(Tail(keywords), section_text)

\* sum(1 for keyword in keywords if keyword in section_text.lower())
KeywordCount(keywords, section_text) ==
  Cardinality({j \in 1..Len(keywords) : Contains(Lower(section_text), keywords[j])})

\* a variant that ignores the job keywords
SectionScoreNoJobKeywords(header, section_text) ==
  (IF header = "PROFESSIONAL EXPERIENCE" THEN 10 ELSE 0)
    + (IF Len(section_text) > 100 THEN 5 ELSE 0)
    - KeywordCount(summary_keywords, section_text) * 3
    - (IF Len(section_text) < 50 THEN 5 ELSE 0)

\* a variant that ignores the summary keywords
SectionScoreNoSummaryKeywords(header, section_text) ==
  (IF header = "PROFESSIONAL EXPERIENCE" THEN 10 ELSE 0)
    + (IF Len(section_text) > 100 THEN 5 ELSE 0)
    + KeywordCount(job_keywords, section_text) * 2
    - (IF Len(section_text) < 50 THEN 5 ELSE 0)

\* a variant that rewards a short block instead of penalising it
SectionScoreShortBonus(header, section_text) ==
  (IF header = "PROFESSIONAL EXPERIENCE" THEN 10 ELSE 0)
    + (IF Len(section_text) > 100 THEN 5 ELSE 0)
    + KeywordCount(job_keywords, section_text) * 2
    - KeywordCount(summary_keywords, section_text) * 3
    + (IF Len(section_text) < 50 THEN 5 ELSE 0)

\* a variant that gives 3 for a job keyword
SectionScoreJobKeywordsTriple(header, section_text) ==
  (IF header = "PROFESSIONAL EXPERIENCE" THEN 10 ELSE 0)
    + (IF Len(section_text) > 100 THEN 5 ELSE 0)
    + KeywordCount(job_keywords, section_text) * 3
    - KeywordCount(summary_keywords, section_text) * 3
    - (IF Len(section_text) < 50 THEN 5 ELSE 0)

\* the score of a candidate block
SectionScore(header, section_text) ==
  (IF header = "PROFESSIONAL EXPERIENCE" THEN 10 ELSE 0)
    + (IF Len(section_text) > 100 THEN 5 ELSE 0)
    + KeywordCount(job_keywords, section_text) * 2
    - KeywordCount(summary_keywords, section_text) * 3
    - (IF Len(section_text) < 50 THEN 5 ELSE 0)

\* the dictionary appended to potential_sections
Candidate(full_text, header, pos) ==
  LET section_text == SectionText(full_text, header, pos)
  IN  [header |-> header, position |-> pos, text |-> section_text,
       score |-> SectionScore(header, section_text)]

RECURSIVE ScanHeader(_, _, _)
\* the while loop over the occurrences of one header, from offset start
ScanHeader(full_text, header, start) ==
  LET pos == Find(Upper(full_text), header, start)
  IN  IF pos = -1 THEN <<>>
      ELSE <<Candidate(full_text, header, pos)>> \o ScanHeader(full_text, header, pos + 1)

RECURSIVE ScanHeaders(_, _)
\* the for loop over the headers, from the j-th on
ScanHeaders(full_text, j) ==
  IF j > Len(experience_headers) THEN <<>>
  ELSE ScanHeader(full_text, experience_headers[j], 0) \o ScanHeaders(full_text, j + 1)

\* a variant that prefers the earlier position among equal scores
KeyGreaterEarlier(a, b) ==
  a.score > b.score \/ (a.score = b.score /\ a.position < b.position)

\* whether the sort key (score, position) of a is greater than that of b
KeyGreater(a, b) ==
  a.score > b.score \/ (a.score = b.score /\ a.position > b.position)

RECURSIVE InsertSection(_, _)
\* x put into a list sorted by descending key, behind the entries of its own key
InsertSection(sorted, x) ==
  IF Len(sorted) = 0 THEN <<x>>
  ELSE IF KeyGreater(x, Head(sorted)) THEN <<x>> \o sorted
  ELSE <<Head(sorted)>> \o InsertSection(Tail(sorted), x)

RECURSIVE SortSections(_, _)
\* list.sort(key = (score, position), reverse = True): a stable sort, so entries
\* of equal key keep the order in which they were appended
SortSections(sorted, sections) ==
  IF Len(sections) = 0 THEN sorted
  ELSE SortSections(InsertSection(sorted, Head(sections)), Tail(sections))

\* potential_sections after the scan and the sort
LocateSections(full_text) == SortSections(<<>>, ScanHeaders(full_text, 1))

\* a variant that takes every list for true
SectionsAlwaysTruthy(sections) == TRUE

\* the truth value of the list potential_sections
SectionsTruthy(sections) == Len(sections) > 0

\* a variant that accepts every score
ScoreAny(section) == TRUE

\* line 194: potential_sections[0]['score'] > 0
ScorePositive(section) == section.score > 0

\* the truth value of the string experience_block
BlockTruthy(block) == block # ""

(***************************************************************************)
(* The input texts                                                         *)
(***************************************************************************)

\* the lines a generated text has at most
MaxLines == 3

\* the lines the generated texts are made of
Lines ==
  {"PROFESSIONAL EXPERIENCE",
   "Experience",
   "Software Engineer | TechCorp (Jan 2020 - Present)",
   "2021 Present Software Engineer Acme Corp Berlin",
   "Data Analyst, Acme Corp January 2021 - March 2022",
   "Marketing Intern - Hooli",
   "Education"}

\* the texts of n lines, the lines joined by newlines
LinesTexts[n \in 0..(MaxLines + 1)] ==
  IF n = 0 THEN {""}
  ELSE IF n = 1 THEN Lines
  ELSE {t \o "\n" \o l : t \in LinesTexts[n - 1], l \in Lines}

GeneratedTexts == UNION {LinesTexts[n] : n \in 0..MaxLines}

ScenarioA ==
  "PROFESSIONAL EXPERIENCE\nSoftware Engineer | TechCorp (Jan 2020 - Present)\nEDUCATION\n..."

ScenarioB == "EXPERIENCE\nData Analyst, Acme Corp January 2021 - March 2022\nEDUCATION"

ScenarioC ==
  "SUMMARY\nPassionate about building scalable systems with 5 years of experience in backend development."

\* a header at the very end of the document: its block is empty
HeaderLast == "Software Engineer - Acme\nPROFESSIONAL EXPERIENCE"

\* two occurrences of a header with blocks of the same score
TwoSections ==
  "EXPERIENCE\nmanager engineer developer\nEducation\nEXPERIENCE\nManager Engineer Developer"

\* a block of more than 100 characters in which a keyword occurs twice
LongSection ==
  "Work Experience\nSenior Engineer at Initech, in charge of the billing platform\nJunior Engineer at Hooli, in charge of the reporting tools\nSkills"

ScenarioTexts ==
  {ScenarioA, ScenarioB, ScenarioC, HeaderLast, TwoSections, LongSection}

Texts == GeneratedTexts \cup ScenarioTexts

(***************************************************************************)
(* extract_experience as a state machine: one action per step of the call  *)
(***************************************************************************)

VARIABLES
  pc,                  \* where the call stands
  text,                \* the argument of the call
  potential_sections,  \* the sorted candidates
  experience_block,    \* the selected block
  experience,          \* the list the call returns
  tried,               \* the strategies run so far in this call, in order
  processor,           \* the attributes of the NLPProcessor object
  returned,            \* for each text, the results the calls on it have returned
  raw_text,            \* the argument of clean_text
  header_index,        \* the index of the header the scan of lines 132-188 is at
  start,               \* the offset from which that scan searches next
  temp_file_path,      \* upload_resume: the path of the temporary file, or None
  temp_files,          \* the temporary files on the disk
  parsed_data,         \* upload_resume: what parse_resume returned
  raised,              \* upload_resume: the exception that propagates, or None
  response             \* upload_resume: the response returned, or None

vars ==
  <<pc, text, potential_sections, experience_block, experience, tried, processor,
    returned, raw_text, header_index, start, temp_file_path, temp_files,
    parsed_data, raised, response>>

\* the state of upload_resume
upload_vars == <<temp_file_path, temp_files, parsed_data, raised, response>>

\* a Python value that is a string
Str(s) == [type |-> "str", value |-> s]

\* the Python value None
None == [type |-> "NoneType", value |-> ""]

\* a local variable that is not assigned yet
Unbound == [type |-> "unbound", value |-> ""]

\* no request is being served
UploadIdle ==
  /\ temp_file_path = None
  /\ temp_files = {}
  /\ parsed_data = Unbound
  /\ raised = None
  /\ response = None

\* the attributes __init__ sets: the calls are made on a constructed processor
ConstructedProcessor ==
  [nlp |-> "spacy model", skills_db |-> "skills database",
   phrase_matcher |-> "phrase matcher"]

Init ==
  /\ pc = "idle"
  /\ text = ""
  /\ potential_sections = <<>>
  /\ experience_block = ""
  /\ experience = <<>>
  /\ tried = <<>>
  /\ processor = ConstructedProcessor
  /\ returned = <<>>
  /\ raw_text = None
  /\ header_index = 0
  /\ start = 0
  /\ UploadIdle

\* extract_experience(t) is called: experience = []
Call ==
  /\ pc = "idle"
  /\ \E t \in Texts : text' = t
  /\ pc' = "locate"
  /\ potential_sections' = <<>>
  /\ experience_block' = ""
  /\ experience' = <<>>
  /\ tried' = <<>>
  /\ UNCHANGED <<processor, returned, raw_text, upload_vars, header_index, start>>

\* lines 130-191: the candidates are collected and sorted
Locate ==
  /\ pc = "locate"
  /\ potential_sections' = LocateSections(text)
  /\ pc' = "select"
  /\ UNCHANGED <<text, experience_block, experience, tried>>
  /\ UNCHANGED <<processor, returned, raw_text, upload_vars, header_index, start>>

\* lines 193-198: the best candidate is used if its score is positive, and the
\* whole-text fallback is returned otherwise; indexing an empty list raises
Select ==
  /\ pc = "select"
  /\ IF SectionsTruthy(potential_sections)
     THEN IF Len(potential_sections) = 0
          THEN /\ pc' = "raised"
               /\ UNCHANGED <<experience_block, experience, tried>>
          ELSE IF ScorePositive(potential_sections[1])
          THEN /\ experience_block' = potential_sections[1].text
               /\ pc' = "block"
               /\ UNCHANGED <<experience, tried>>
          ELSE /\ experience' = extract_experience_from_entire_text(text)
               /\ tried' = Append(tried, "entire_text")
               /\ pc' = "done"
               /\ UNCHANGED experience_block
     ELSE /\ experience' = extract_experience_from_entire_text(text)
          /\ tried' = Append(tried, "entire_text")
          /\ pc' = "done"
          /\ UNCHANGED experience_block
  /\ UNCHANGED <<text, potential_sections>>
  /\ UNCHANGED <<processor, returned, raw_text, upload_vars, header_index, start>>

\* line 200: if experience_block
CheckBlock ==
  /\ pc = "block"
  /\ pc' = IF BlockTruthy(experience_block) THEN "pipe" ELSE "done"
  /\ UNCHANGED <<text, potential_sections, experience_block, experience, tried>>
  /\ UNCHANGED <<processor, returned, raw_text, upload_vars, header_index, start>>

\* line 202
TryPipeFormat ==
  /\ pc = "pipe"
  /\ experience' = extract_with_pipe_format(experience_block)
  /\ tried' = Append(tried, "pipe_format")
  /\ pc' = "date_first"
  /\ UNCHANGED <<text, potential_sections, experience_block>>
  /\ UNCHANGED <<processor, returned, raw_text, upload_vars, header_index, start>>

\* lines 204-205
TryDateFirstFormat ==
  /\ pc = "date_first"
  /\ IF Len(experience) = 0
     THEN /\ experience' = extract_with_date_first_format(experience_block)
          /\ tried' = Append(tried, "date_first_format")
     ELSE UNCHANGED <<experience, tried>>
  /\ pc' = "line_by_line"
  /\ UNCHANGED <<text, potential_sections, experience_block>>
  /\ UNCHANGED <<processor, returned, raw_text, upload_vars, header_index, start>>

\* lines 207-208
TryLineByLine ==
  /\ pc = "line_by_line"
  /\ IF Len(experience) = 0
     THEN /\ experience' = extract_with_line_by_line_processing(experience_block)
          /\ tried' = Append(tried, "line_by_line")
     ELSE UNCHANGED <<experience, tried>>
  /\ pc' = "entire_text"
  /\ UNCHANGED <<text, potential_sections, experience_block>>
  /\ UNCHANGED <<processor, returned, raw_text, upload_vars, header_index, start>>

\* lines 210-212
TryEntireText ==
  /\ pc = "entire_text"
  /\ IF Len(experience) = 0
     THEN /\ experience' = extract_experience_from_entire_text(text)
          /\ tried' = Append(tried, "entire_text")
     ELSE UNCHANGED <<experience, tried>>
  /\ pc' = "done"
  /\ UNCHANGED <<text, potential_sections, experience_block>>
  /\ UNCHANGED <<processor, returned, raw_text, upload_vars, header_index, start>>

\* line 214 (and 198): the call returns experience and its locals are gone
Return ==
  /\ pc = "done"
  /\ pc' = "idle"
  /\ text' = ""
  /\ potential_sections' = <<>>
  /\ experience_block' = ""
  /\ experience' = <<>>
  /\ tried' = <<>>
  /\ UNCHANGED <<processor, returned, raw_text, upload_vars, header_index, start>>

Next ==
  \/ Call
  \/ Locate
  \/ Select
  \/ CheckBlock
  \/ TryPipeFormat
  \/ TryDateFirstFormat
  \/ TryLineByLine
  \/ TryEntireText
  \/ Return

Spec == Init /\ [][Next]_vars

(***************************************************************************)
(* The scoring of lines 156-179 applied to a block that grows by keywords: *)
(* potential_sections holds the scored block after every step, tried the   *)
(* keywords appended so far                                                *)
(***************************************************************************)

\* the keywords appended to a block at most
MaxAppends == 2

\* the blocks the scoring starts from: stripped, as the locator produces them
ScoreBlocks ==
  {"",
   "engineer",
   "Five years of experience",
   "Maintained the billing platform for clients",
   "Maintained the billing platform for the clients of Initech and wrote the reports for Hooli"}

\* the dictionary of lines 181-186 for a block that follows a header at offset 0
Scored(header, section_text) ==
  [header |-> header, position |-> 0, text |-> section_text,
   score |-> SectionScore(header, section_text)]

ScoreInit ==
  /\ pc = "score"
  /\ text = ""
  /\ experience_block \in ScoreBlocks
  /\ potential_sections = <<Scored("EXPERIENCE", experience_block)>>
  /\ experience = <<>>
  /\ tried = <<>>
  /\ processor = ConstructedProcessor
  /\ returned = <<>>
  /\ raw_text = None
  /\ header_index = 0
  /\ start = 0
  /\ UploadIdle

\* the block grows by keyword, as a word of its own, and is scored again
AppendKeyword(keyword) ==
  /\ pc = "score"
  /\ Len(tried) < MaxAppends
  /\ experience_block' =
       IF experience_block = "" THEN keyword ELSE experience_block \o " " \o keyword
  /\ potential_sections' =
       Append(potential_sections, Scored("EXPERIENCE", experience_block'))
  /\ tried' = Append(tried, keyword)
  /\ UNCHANGED <<pc, text, experience>>
  /\ UNCHANGED <<processor, returned, raw_text, upload_vars, header_index, start>>

AppendJobKeyword ==
  \E j \in 1..Len(job_keywords) : AppendKeyword(job_keywords[j])

AppendSummaryKeyword ==
  \E j \in 1..Len(summary_keywords) : AppendKeyword(summary_keywords[j])

ScoreNext ==
  \/ AppendJobKeyword
  \/ AppendSummaryKeyword

ScoreSpec == ScoreInit /\ [][ScoreNext]_vars

(***************************************************************************)
(* The scoring of lines 156-179 applied to blocks made of keywords: the    *)
(* first job keywords and the first summary keywords after a filler text   *)
(***************************************************************************)

\* a filler of fewer than 50 characters and one of more than 100, no keyword
ShortFiller == "Ran the billing platform for clients"

LongFiller ==
  "Ran the billing platform for the clients of Initech and wrote the monthly reports for Hooli and Globex"

RangeFillers == {"", ShortFiller, LongFiller}

\* what stands between the parts of a block
RangeSeparators == {"", " "}

\* the headers the scored block follows: one with the bonus, one without
ScoreHeaders == {"PROFESSIONAL EXPERIENCE", "EXPERIENCE"}

RECURSIVE JoinParts(_, _)
\* sep.join of the parts that are not empty
JoinParts(parts, sep) ==
  IF Len(parts) = 0 THEN ""
  ELSE LET rest == JoinParts(Tail(parts), sep)
       IN  IF Head(parts) = "" THEN rest
           ELSE IF rest = "" THEN Head(parts)
           ELSE Head(parts) \o sep \o rest

\* the block of a filler, the first i job keywords and the first j summary
\* keywords
RangeBlock(filler, i, j, sep) ==
  JoinParts(<<filler>> \o SubSeq(job_keywords, 1, i) \o SubSeq(summary_keywords, 1, j),
            sep)

RangeBlocks ==
  {RangeBlock(filler, i, j, sep) :
     filler \in RangeFillers, i \in 0..Len(job_keywords),
     j \in 0..Len(summary_keywords), sep \in RangeSeparators}

RangeInit ==
  /\ pc = "block"
  /\ text = ""
  /\ experience_block \in RangeBlocks
  /\ potential_sections = <<>>
  /\ experience = <<>>
  /\ tried = <<>>
  /\ processor = ConstructedProcessor
  /\ returned = <<>>
  /\ raw_text = None
  /\ header_index = 0
  /\ start = 0
  /\ UploadIdle

\* the block is scored as the block of a header
ScoreCandidate ==
  /\ pc = "block"
  /\ pc' = "scored"
  /\ \E header \in ScoreHeaders :
       potential_sections' = <<Scored(header, experience_block)>>
  /\ UNCHANGED <<text, experience_block, experience, tried, processor, returned,
                 raw_text, upload_vars, header_index, start>>

RangeNext == ScoreCandidate

RangeSpec == RangeInit /\ [][RangeNext]_vars

(***************************************************************************)
(* Concurrent calls of extract_experience on one processor object: every   *)
(* thread has its own locals, so pc, text, potential_sections,             *)
(* experience_block, experience and tried are functions of the thread; the *)
(* steps are those of the single call above                                *)
(***************************************************************************)

\* the threads that call the processor
MaxThreads == 2

Threads == 1..MaxThreads

\* the texts the threads call the processor on
ThreadTexts == {ScenarioB, ScenarioC}

ThreadInit ==
  /\ pc = [t \in Threads |-> "idle"]
  /\ text = [t \in Threads |-> ""]
  /\ potential_sections = [t \in Threads |-> <<>>]
  /\ experience_block = [t \in Threads |-> ""]
  /\ experience = [t \in Threads |-> <<>>]
  /\ tried = [t \in Threads |-> <<>>]
  /\ processor = ConstructedProcessor
  /\ returned = [x \in ThreadTexts |-> {}]
  /\ raw_text = None
  /\ header_index = 0
  /\ start = 0
  /\ UploadIdle

ThreadCall(t) ==
  /\ pc[t] = "idle"
  /\ \E x \in ThreadTexts : text' = [text EXCEPT ![t] = x]
  /\ pc' = [pc EXCEPT ![t] = "locate"]
  /\ potential_sections' = [potential_sections EXCEPT ![t] = <<>>]
  /\ experience_block' = [experience_block EXCEPT ![t] = ""]
  /\ experience' = [experience EXCEPT ![t] = <<>>]
  /\ tried' = [tried EXCEPT ![t] = <<>>]
  /\ UNCHANGED <<processor, returned, raw_text, upload_vars, header_index, start>>

ThreadLocate(t) ==
  /\ pc[t] = "locate"
  /\ potential_sections' = [potential_sections EXCEPT ![t] = LocateSections(text[t])]
  /\ pc' = [pc EXCEPT ![t] = "select"]
  /\ UNCHANGED <<text, experience_block, experience, tried, processor, returned, raw_text, upload_vars, header_index, start>>

ThreadSelect(t) ==
  /\ pc[t] = "select"
  /\ IF SectionsTruthy(potential_sections[t])
     THEN IF Len(potential_sections[t]) = 0
          THEN /\ pc' = [pc EXCEPT ![t] = "raised"]
               /\ UNCHANGED <<experience_block, experience, tried>>
          ELSE IF ScorePositive(potential_sections[t][1])
          THEN /\ experience_block' =
                    [experience_block EXCEPT ![t] = potential_sections[t][1].text]
               /\ pc' = [pc EXCEPT ![t] = "block"]
               /\ UNCHANGED <<experience, tried>>
          ELSE /\ experience' =
                    [experience EXCEPT ![t] = extract_experience_from_entire_text(text[t])]
               /\ tried' = [tried EXCEPT ![t] = Append(@, "entire_text")]
               /\ pc' = [pc EXCEPT ![t] = "done"]
               /\ UNCHANGED experience_block
     ELSE /\ experience' =
               [experience EXCEPT ![t] = extract_experience_from_entire_text(text[t])]
          /\ tried' = [tried EXCEPT ![t] = Append(@, "entire_text")]
          /\ pc' = [pc EXCEPT ![t] = "done"]
          /\ UNCHANGED experience_block
  /\ UNCHANGED <<text, potential_sections, processor, returned, raw_text, upload_vars, header_index, start>>

ThreadCheckBlock(t) ==
  /\ pc[t] = "block"
  /\ pc' = [pc EXCEPT ![t] = IF BlockTruthy(experience_block[t]) THEN "pipe" ELSE "done"]
  /\ UNCHANGED <<text, potential_sections, experience_block, experience, tried,
                 processor, returned, raw_text, upload_vars, header_index, start>>

ThreadTryPipeFormat(t) ==
  /\ pc[t] = "pipe"
  /\ experience' = [experience EXCEPT ![t] = extract_with_pipe_format(experience_block[t])]
  /\ tried' = [tried EXCEPT ![t] = Append(@, "pipe_format")]
  /\ pc' = [pc EXCEPT ![t] = "date_first"]
  /\ UNCHANGED <<text, potential_sections, experience_block, processor, returned, raw_text, upload_vars, header_index, start>>

ThreadTryDateFirstFormat(t) ==
  /\ pc[t] = "date_first"
  /\ IF Len(experience[t]) = 0
     THEN /\ experience' =
               [experience EXCEPT ![t] = extract_with_date_first_format(experience_block[t])]
          /\ tried' = [tried EXCEPT ![t] = Append(@, "date_first_format")]
     ELSE UNCHANGED <<experience, tried>>
  /\ pc' = [pc EXCEPT ![t] = "line_by_line"]
  /\ UNCHANGED <<text, potential_sections, experience_block, processor, returned, raw_text, upload_vars, header_index, start>>

ThreadTryLineByLine(t) ==
  /\ pc[t] = "line_by_line"
  /\ IF Len(experience[t]) = 0
     THEN /\ experience' =
               [experience EXCEPT
                  ![t] = extract_with_line_by_line_processing(experience_block[t])]
          /\ tried' = [tried EXCEPT ![t] = Append(@, "line_by_line")]
     ELSE UNCHANGED <<experience, tried>>
  /\ pc' = [pc EXCEPT ![t] = "entire_text"]
  /\ UNCHANGED <<text, potential_sections, experience_block, processor, returned, raw_text, upload_vars, header_index, start>>

ThreadTryEntireText(t) ==
  /\ pc[t] = "entire_text"
  /\ IF Len(experience[t]) = 0
     THEN /\ experience' =
               [experience EXCEPT ![t] = extract_experience_from_entire_text(text[t])]
          /\ tried' = [tried EXCEPT ![t] = Append(@, "entire_text")]
     ELSE UNCHANGED <<experience, tried>>
  /\ pc' = [pc EXCEPT ![t] = "done"]
  /\ UNCHANGED <<text, potential_sections, experience_block, processor, returned, raw_text, upload_vars, header_index, start>>

\* a variant that keeps the last result in an attribute of the processor
ThreadReturnCaching(t) ==
  /\ pc[t] = "done"
  /\ returned' = [returned EXCEPT ![text[t]] = @ \cup {experience[t]}]
  /\ processor' = [processor EXCEPT !.skills_db = experience[t]]
  /\ UNCHANGED <<raw_text, upload_vars, header_index, start>>
  /\ pc' = [pc EXCEPT ![t] = "idle"]
  /\ text' = [text EXCEPT ![t] = ""]
  /\ potential_sections' = [potential_sections EXCEPT ![t] = <<>>]
  /\ experience_block' = [experience_block EXCEPT ![t] = ""]
  /\ experience' = [experience EXCEPT ![t] = <<>>]
  /\ tried' = [tried EXCEPT ![t] = <<>>]

\* the call of thread t returns experience to its caller, and its locals are gone
ThreadReturn(t) ==
  /\ pc[t] = "done"
  /\ returned' = [returned EXCEPT ![text[t]] = @ \cup {experience[t]}]
  /\ pc' = [pc EXCEPT ![t] = "idle"]
  /\ text' = [text EXCEPT ![t] = ""]
  /\ potential_sections' = [potential_sections EXCEPT ![t] = <<>>]
  /\ experience_block' = [experience_block EXCEPT ![t] = ""]
  /\ experience' = [experience EXCEPT ![t] = <<>>]
  /\ tried' = [tried EXCEPT ![t] = <<>>]
  /\ UNCHANGED <<processor, raw_text, upload_vars, header_index, start>>

ThreadNext ==
  \/ \E t \in Threads : ThreadCall(t)
  \/ \E t \in Threads : ThreadLocate(t)
  \/ \E t \in Threads : ThreadSelect(t)
  \/ \E t \in Threads : ThreadCheckBlock(t)
  \/ \E t \in Threads : ThreadTryPipeFormat(t)
  \/ \E t \in Threads : ThreadTryDateFirstFormat(t)
  \/ \E t \in Threads : ThreadTryLineByLine(t)
  \/ \E t \in Threads : ThreadTryEntireText(t)
  \/ \E t \in Threads : ThreadReturn(t)

ThreadSpec == ThreadInit /\ [][ThreadNext]_vars

(***************************************************************************)
(* The scan of lines 132-188, one iteration of its loops at a time:        *)
(* potential_sections grows by one candidate per occurrence found          *)
(***************************************************************************)

\* a text in which two occurrences of a header share a character
OverlappingHeaders == "ExperiencExperience in sales"

\* a synonym inside another synonym
HeaderInsideHeader == "Work Experience\nIntern"

\* a header behind a word with a sharp s
SharpSBeforeHeader == "Stra" \o SharpS \o "e 5\nExperience: Dev"

\* the texts the scan is run on
ScanTexts ==
  {"", "Education", "Experience", "PROFESSIONAL EXPERIENCE", "Employment History",
   "Job history\nCareer history", "experience, EXPERIENCE", "No header here",
   "Work history: intern", "employment\nSkills", OverlappingHeaders,
   HeaderInsideHeader, HeaderLast, SharpSBeforeHeader}

ScanInit ==
  /\ pc = "scan"
  /\ text \in ScanTexts
  /\ potential_sections = <<>>
  /\ header_index = 1
  /\ start = 0
  /\ UploadIdle
  /\ experience_block = ""
  /\ experience = <<>>
  /\ tried = <<>>
  /\ processor = ConstructedProcessor
  /\ returned = <<>>
  /\ raw_text = None

\* a variant that searches on behind the occurrence found
ScanFoundPastHeader ==
  /\ pc = "scan"
  /\ header_index <= Len(experience_headers)
  /\ \E header \in {experience_headers[header_index]}, upper \in {Upper(text)} :
       \E pos \in {Find(upper, header, start)} :
         /\ pos # -1
         /\ \E section_text \in {SectionText(text, header, pos)} :
              potential_sections' =
                Append(potential_sections,
                       [header |-> header, position |-> pos, text |-> section_text,
                        score |-> SectionScore(header, section_text)])
         /\ start' = pos + Len(header)
  /\ UNCHANGED <<pc, text, header_index, experience_block, experience, tried,
                 processor, returned, raw_text, upload_vars>>

\* lines 135-188: the header is found at pos, its candidate is appended and the
\* search goes on one character further
ScanFound ==
  /\ pc = "scan"
  /\ header_index <= Len(experience_headers)
  /\ \E header \in {experience_headers[header_index]}, upper \in {Upper(text)} :
       \E pos \in {Find(upper, header, start)} :
         /\ pos # -1
         /\ \E section_text \in {SectionText(text, header, pos)} :
              potential_sections' =
                Append(potential_sections,
                       [header |-> header, position |-> pos, text |-> section_text,
                        score |-> SectionScore(header, section_text)])
         /\ start' = pos + 1
  /\ UNCHANGED <<pc, text, header_index, experience_block, experience, tried,
                 processor, returned, raw_text, upload_vars>>

\* lines 135-137 and 132-133: the header is not found any more, the while loop
\* breaks and the for loop takes the next header with start = 0
ScanBreak ==
  /\ pc = "scan"
  /\ header_index <= Len(experience_headers)
  /\ \E upper \in {Upper(text)} : Find(upper, experience_headers[header_index], start) = -1
  /\ header_index' = header_index + 1
  /\ start' = 0
  /\ UNCHANGED <<pc, text, potential_sections, experience_block, experience, tried,
                 processor, returned, raw_text, upload_vars>>

\* the for loop has gone through all headers
ScanEnd ==
  /\ pc = "scan"
  /\ header_index > Len(experience_headers)
  /\ pc' = "scanned"
  /\ UNCHANGED <<text, potential_sections, header_index, start, experience_block,
                 experience, tried, processor, returned, raw_text, upload_vars>>

ScanNext ==
  \/ ScanFound
  \/ ScanBreak
  \/ ScanEnd

ScanSpec == ScanInit /\ [][ScanNext]_vars

\* the interpreter keeps executing the loop
ScanLive == ScanSpec /\ WF_vars(ScanNext)

(***************************************************************************)
(* TextExtractor.clean_text (text_extractor.py, lines 86-107)              *)
(***************************************************************************)

\* \w, for the characters of the ASCII range
WordChars == Letters \cup Digits \cup {"_", SharpS}

\* \s+
whitespace_run == Plus(WS)

\* \n+
newline_run == Plus(In({"\n"}))

\* a variant of the class of line 105 that also matches the @
special_char_or_at ==
  NotIn(WordChars \cup Whitespace \cup {"-", ".", "(", ")", "+", ",", ":", ";"})

\* a variant of the class of line 105 that keeps the vertical bar
special_char_but_bar ==
  NotIn(WordChars \cup Whitespace
          \cup {"-", ".", "@", "(", ")", "+", ",", ":", ";", "|"})

\* [^\w\s\n\-\.\@\(\)\+\,\:\;]
special_char ==
  NotIn(WordChars \cup Whitespace \cup {"-", ".", "@", "(", ")", "+", ",", ":", ";"})

\* the truth value of a string or of None
Truthy(v) == v.type = "str" /\ v.value # ""

clean_text(v) ==
  IF ~Truthy(v) THEN ""
  ELSE LET spaced == Sub(whitespace_run, " ", v.value)
           lines == Sub(newline_run, "\n", spaced)
       IN  Strip(SubEmpty(special_char, lines))

\* the characters a generated input of clean_text has at most
MaxCleanLen == 3

\* the characters the generated inputs are made of: word characters, the
\* punctuation of line 105, other characters, and whitespace
CleanChars ==
  {"a", "7", "_"} \cup {"-", ".", "@", "(", ")", "+", ",", ":", ";"}
    \cup {"#", "|"} \cup {" ", "\n", "\t"}

CleanStrings[n \in 0..(MaxCleanLen + 1)] ==
  IF n = 0 THEN {""}
  ELSE {t \o c : t \in CleanStrings[n - 1], c \in CleanChars}

\* the raw text of test_clean_text
TestRawText == "This   is    a\n\n\ntest   text\nwith   extra   spaces"

\* the raw text of test_clean_text_special_chars
TestSpecialChars == "Email: john@example.com Phone: (555) 123-4567"

\* a removed character with whitespace on both sides
SpecialBetweenSpaces == "C++ & C#: 50% (remote)"

\* an experience section in the pipe format, as a file holds it
PipeRawText ==
  "EXPERIENCE\nSoftware Engineer | Jan 2020 - Present (Remote)\nBuilt tools"

CleanInputs ==
  {None} \cup {Str(t) : t \in UNION {CleanStrings[n] : n \in 0..MaxCleanLen}}
    \cup {Str(TestRawText), Str(TestSpecialChars), Str(SpecialBetweenSpaces),
          Str(PipeRawText)}

CleanInit ==
  /\ pc = "raw"
  /\ raw_text \in CleanInputs
  /\ header_index = 0
  /\ start = 0
  /\ UploadIdle
  /\ text = ""
  /\ potential_sections = <<>>
  /\ experience_block = ""
  /\ experience = <<>>
  /\ tried = <<>>
  /\ processor = ConstructedProcessor
  /\ returned = <<>>

\* clean_text(raw_text) is called and returns the text handed on
CleanText ==
  /\ pc = "raw"
  /\ text' = clean_text(raw_text)
  /\ pc' = "cleaned"
  /\ UNCHANGED <<potential_sections, experience_block, experience, tried, processor,
                 returned, raw_text, upload_vars, header_index, start>>

CleanNext == CleanText

CleanSpec == CleanInit /\ [][CleanNext]_vars

(***************************************************************************)
(* _extract_with_pipe_format on its own: the block is one line of the form *)
(* "segment | date range (parenthesised text)"                             *)
(***************************************************************************)

\* the most words of a title/company segment
MaxWords == 3

PipeWords == <<"Senior Engineer", "Acme Corp", "Berlin", "GmbH">>

\* a single space, a double space and two double spaces
PipeSeparators == {" ", "  ", "    "}

RECURSIVE SegmentsOf(_)
\* the segments of the first n words, with any separators between them
SegmentsOf(n) ==
  IF n = 1 THEN {PipeWords[1]}
  ELSE {seg \o sep \o PipeWords[n] : seg \in SegmentsOf(n - 1), sep \in PipeSeparators}

PipeSegments == UNION {SegmentsOf(n) : n \in 1..MaxWords}

PipeDateRanges ==
  {"Jan 2020 - Present", "2019 - 2021", "2020", "Jan-2019 - Mar-2021", "Present",
   "Jan-2020 - Present", "TechCorp"}

PipeLocations == {"Remote", "2019 - Present", "Jan 2020 - Mar 2021"}

PipeLine(segment, date_range, location) ==
  segment \o " | " \o date_range \o " (" \o location \o ")"

PipeBlocks ==
  {PipeLine(seg, dr, loc) :
     seg \in PipeSegments, dr \in PipeDateRanges, loc \in PipeLocations}

PipeInit ==
  /\ pc = "block"
  /\ experience_block \in PipeBlocks
  /\ experience = <<>>
  /\ text = ""
  /\ potential_sections = <<>>
  /\ tried = <<>>
  /\ processor = ConstructedProcessor
  /\ returned = <<>>
  /\ raw_text = None
  /\ header_index = 0
  /\ start = 0
  /\ UploadIdle

\* _extract_with_pipe_format(experience_block) is called and returns its list
PipeFormat ==
  /\ pc = "block"
  /\ experience' = extract_with_pipe_format(experience_block)
  /\ pc' = "piped"
  /\ UNCHANGED <<text, potential_sections, experience_block, tried, processor,
                 returned, raw_text, upload_vars, header_index, start>>

PipeNext == PipeFormat

PipeSpec == PipeInit /\ [][PipeNext]_vars

(***************************************************************************)
(* The four strategies on their own: each is called on a block of one or   *)
(* two lines                                                               *)
(***************************************************************************)

\* the most lines of a block
MaxBlockLines == 2

\* a line of the date-first format
DateFirstLine == "2021 Present Software Engineer Acme Corp Berlin"

\* the same format behind another word
YearMidLine == "Hired 2020 Present Data Analyst Hooli Inc Paris"

\* a line of the date-first format with two years
YearsLine == "2018 2019 Sales Manager Initech Ltd Rome"

\* three capitalised words
ContinuationLine == "Globex Gmbh Oslo"

DateFirstLines == {DateFirstLine, YearMidLine, YearsLine, ContinuationLine}

\* "JobTitle, Company Date - Date"
CommaLine == "Data Analyst, Acme Corp January 2021 - March 2022"

\* "JobTitle - Company (Date - Present)"
ParenLine == "Marketing Intern - Hooli (June 2020 - Present)"

\* "JobTitle - Company"
DashLine == "Sales Assistant - Initech"

\* a line pattern3 matches with a title too short for its guard
ShortTitleCommaLine == "Dev, Senior Engineer Acme - Hooli"

\* the format of the first pattern of the whole-text search
Resume3Line == "Software Engineer, Umbrella Corp June 20XX - Current"

JobLines == {CommaLine, ParenLine, DashLine, ShortTitleCommaLine, Resume3Line}

\* lines of the format "JobTitle - Company" that read as descriptions
BuiltLine == "Built Tools Engineer - Acme Corp"

BulletLine == Bullet \o " Support Engineer - Hooli"

HyphenLine == "- Test Engineer - Globex"

\* a line of 101 characters and one of 100
LongLine ==
  "Senior Platform Reliability Engineer for Payments and Billin"
    \o "g and Cloud Infrastructure Op - Acme Corp"

FullLine ==
  "Senior Platform Reliability Engineer for Payments and Billin"
    \o "g and Cloud Infrastructure O - Acme Corp"

DescriptionLines == {BuiltLine, BulletLine, HyphenLine, LongLine, FullLine, DashLine}

\* a line of the format "JobTitle - Company" without a role in its title
NoRoleLine == "Team Lead - Globex"

\* a line of the format "JobTitle - Company (Date - Present)" without dates
EmptyDatesLine == "Team Lead - Acme Corp ( - )"

\* a company of 49 characters and one of 50
Company49Line == "Sales Manager - Consolidated International Shipping and Trading C"

Company50Line == "Sales Engineer - Consolidated International Shipping and Freight Co"

GuardLines == {NoRoleLine, EmptyDatesLine, Company49Line, Company50Line}

\* two lines of the pipe format
PipeLines ==
  {"Software Engineer | Jan 2020 - Present (Remote)",
   "Data Analyst  Hooli | 2018 - 2019 (Paris)"}

RECURSIVE BlocksOf(_, _)
\* the blocks of n different lines of a set
BlocksOf(lines, n) ==
  IF n = 1 THEN lines
  ELSE UNION {{block \o "\n" \o line :
                  line \in {l \in lines : ~Contains(block, l)}} :
                block \in BlocksOf(lines, n - 1)}

StrategyBlocks ==
  UNION {BlocksOf(lines, n) :
           lines \in {DateFirstLines, JobLines, DescriptionLines, GuardLines,
                      PipeLines},
           n \in 1..MaxBlockLines}

StrategyInit ==
  /\ pc = "block"
  /\ experience_block \in StrategyBlocks
  /\ experience = <<>>
  /\ text = ""
  /\ potential_sections = <<>>
  /\ tried = <<>>
  /\ processor = ConstructedProcessor
  /\ returned = <<>>
  /\ raw_text = None
  /\ header_index = 0
  /\ start = 0
  /\ UploadIdle

\* _extract_with_pipe_format(experience_block) is called and returns its list
CallPipeFormat ==
  /\ pc = "block"
  /\ experience' = extract_with_pipe_format(experience_block)
  /\ pc' = "piped"
  /\ UNCHANGED <<text, potential_sections, experience_block, tried, processor,
                 returned, raw_text, upload_vars, header_index, start>>

\* _extract_with_date_first_format(experience_block) is called and returns
CallDateFirstFormat ==
  /\ pc = "block"
  /\ experience' = extract_with_date_first_format(experience_block)
  /\ pc' = "dated"
  /\ UNCHANGED <<text, potential_sections, experience_block, tried, processor,
                 returned, raw_text, upload_vars, header_index, start>>

\* _extract_with_line_by_line_processing(experience_block) is called and returns
CallLineByLine ==
  /\ pc = "block"
  /\ experience' = extract_with_line_by_line_processing(experience_block)
  /\ pc' = "lined"
  /\ UNCHANGED <<text, potential_sections, experience_block, tried, processor,
                 returned, raw_text, upload_vars, header_index, start>>

\* _extract_experience_from_entire_text(experience_block) is called and returns
CallEntireText ==
  /\ pc = "block"
  /\ experience' = extract_experience_from_entire_text(experience_block)
  /\ pc' = "searched"
  /\ UNCHANGED <<text, potential_sections, experience_block, tried, processor,
                 returned, raw_text, upload_vars, header_index, start>>

StrategyNext ==
  \/ CallPipeFormat
  \/ CallDateFirstFormat
  \/ CallLineByLine
  \/ CallEntireText

StrategySpec == StrategyInit /\ [][StrategyNext]_vars

(***************************************************************************)
(* upload_resume (api/main.py, lines 67-142) with ResumeParser.parse_resume*)
(* (core/resume_parser.py, lines 26-91) and TextExtractor.extract_and_clean*)
(* (utils/text_extractor.py, lines 109-124)                                *)
(***************************************************************************)

\* extract_and_clean: the cleaned text of the file, None if there is none
extract_and_clean(extracted) ==
  IF Truthy(extracted) THEN Str(clean_text(extracted)) ELSE None

\* the object parse_resume returns for a text and its experience entries
ParsedResume(cleaned, entries) ==
  [type |-> "ParsedResume", raw_text |-> cleaned, experience |-> entries]

HTTPException(status_code, detail) ==
  [type |-> "HTTPException", status_code |-> status_code, detail |-> detail]

\* an exception that is no HTTPException, with its str()
OtherException(class, message) == [type |-> class, message |-> message]

\* the detail of lines 118-121
FailedToParse ==
  "Failed to parse resume. Please check if the file is valid and contains readable text."

\* str() of the AttributeError of parsed_data.experience on None
NoneTypeHasNoExperience == "'NoneType' object has no attribute 'experience'"

\* str() of the OSError of a write to a full disk
NoSpaceLeft == "[Errno 28] No space left on device"

\* what _validate_file returns: None or an error message
ValidationResults ==
  {None,
   Str("No file provided"),
   Str("File size exceeds maximum allowed size of 10.0MB"),
   Str("File type not supported. Allowed types: pdf, docx")}

\* the names NamedTemporaryFile gives, by the suffix of the upload
TempFilePaths == {"/tmp/tmpk3v9_q2x.pdf", "/tmp/tmpk3v9_q2x.docx"}

\* what extract_text reads from the file: None, or its text
ExtractedTexts ==
  {None, Str(""), Str(" \n "), Str(PipeRawText), Str(TestSpecialChars),
   Str(ScenarioB), Str("Experience\nMarketing Intern - Hooli\nEducation"),
   Str("No header here"), Str("Experience"), Str("Skills: Python, SQL")}

UploadInit ==
  /\ pc = "request"
  /\ text = ""
  /\ potential_sections = <<>>
  /\ experience_block = ""
  /\ experience = <<>>
  /\ tried = <<>>
  /\ processor = ConstructedProcessor
  /\ returned = <<>>
  /\ raw_text = None
  /\ header_index = 0
  /\ start = 0
  /\ UploadIdle

\* lines 79-92: the file is validated
ValidateFile ==
  /\ pc = "request"
  /\ \E validation_error \in ValidationResults :
       IF Truthy(validation_error)
       THEN /\ raised' = HTTPException(400, validation_error.value)
            /\ pc' = "except"
       ELSE /\ pc' = "save"
            /\ UNCHANGED raised
  /\ UNCHANGED <<text, potential_sections, experience_block, experience, tried,
                 processor, returned, raw_text, header_index, start,
                 temp_file_path, temp_files, parsed_data, response>>

\* lines 95-103: the temporary file is created and the upload written to it
SaveTempFile ==
  /\ pc = "save"
  /\ \E path \in TempFilePaths, written \in BOOLEAN :
       /\ temp_file_path' = Str(path)
       /\ temp_files' = temp_files \cup {path}
       /\ IF written
          THEN /\ pc' = "parse"
               /\ UNCHANGED raised
          ELSE /\ raised' = OtherException("OSError", NoSpaceLeft)
               /\ pc' = "finally"
  /\ UNCHANGED <<text, potential_sections, experience_block, experience, tried,
                 processor, returned, raw_text, header_index, start,
                 parsed_data, response>>

\* line 107 and resume_parser.py, lines 40-44: parse_resume is called, and
\* returns None if there is no text
ParseResume ==
  /\ pc = "parse"
  /\ \E extracted \in ExtractedTexts :
       /\ raw_text' = extract_and_clean(extracted)
       /\ IF Truthy(raw_text')
          THEN /\ text' = raw_text'.value
               /\ pc' = "locate"
               /\ UNCHANGED parsed_data
          ELSE /\ parsed_data' = None
               /\ pc' = "print"
               /\ UNCHANGED text
  /\ UNCHANGED <<potential_sections, experience_block, experience, tried,
                 processor, returned, header_index, start,
                 temp_file_path, temp_files, raised, response>>

\* resume_parser.py, lines 60-91: extract_experience has returned; parse_resume
\* returns the parsed resume, or None if one of its steps raises
ParseResumeReturn ==
  /\ pc = "done"
  /\ \E step_raises \in BOOLEAN :
       parsed_data' = IF step_raises THEN None ELSE ParsedResume(text, experience)
  /\ pc' = "print"
  /\ UNCHANGED <<text, potential_sections, experience_block, experience, tried,
                 processor, returned, raw_text, header_index, start,
                 temp_file_path, temp_files, raised, response>>

\* lines 109-115: the experience entries of parsed_data are printed and counted
DebugPrint ==
  /\ pc = "print"
  /\ IF parsed_data = None
     THEN /\ raised' = OtherException("AttributeError", NoneTypeHasNoExperience)
          /\ pc' = "finally"
     ELSE /\ pc' = "check"
          /\ UNCHANGED raised
  /\ UNCHANGED <<text, potential_sections, experience_block, experience, tried,
                 processor, returned, raw_text, header_index, start,
                 temp_file_path, temp_files, parsed_data, response>>

\* lines 117-129: not parsed_data raises, and the response is returned otherwise
CheckParsed ==
  /\ pc = "check"
  /\ IF parsed_data = None
     THEN /\ raised' = HTTPException(500, FailedToParse)
          /\ UNCHANGED response
     ELSE /\ response' = [success |-> TRUE, message |-> "Resume parsed successfully",
                          parsed_data |-> parsed_data]
          /\ UNCHANGED raised
  /\ pc' = "finally"
  /\ UNCHANGED <<text, potential_sections, experience_block, experience, tried,
                 processor, returned, raw_text, header_index, start,
                 temp_file_path, temp_files, parsed_data>>

\* lines 131-134: the temporary file is removed if it exists
Finally ==
  /\ pc = "finally"
  /\ temp_files' =
       IF temp_file_path # None /\ temp_file_path.value \in temp_files
       THEN temp_files \ {temp_file_path.value}
       ELSE temp_files
  /\ pc' = IF raised # None THEN "except" ELSE "ended"
  /\ UNCHANGED <<text, potential_sections, experience_block, experience, tried,
                 processor, returned, raw_text, header_index, start,
                 temp_file_path, parsed_data, raised, response>>

\* lines 136-142: an HTTPException passes, any other exception is wrapped
Except ==
  /\ pc = "except"
  /\ raised' =
       IF raised.type = "HTTPException" THEN raised
       ELSE HTTPException(500, "Internal server error: " \o raised.message)
  /\ pc' = "ended"
  /\ UNCHANGED <<text, potential_sections, experience_block, experience, tried,
                 processor, returned, raw_text, header_index, start,
                 temp_file_path, temp_files, parsed_data, response>>

\* the call of extract_experience inside parse_resume takes the steps Locate to
\* TryEntireText on the cleaned text
UploadNext ==
  \/ ValidateFile
  \/ SaveTempFile
  \/ ParseResume
  \/ Locate
  \/ Select
  \/ CheckBlock
  \/ TryPipeFormat
  \/ TryDateFirstFormat
  \/ TryLineByLine
  \/ TryEntireText
  \/ ParseResumeReturn
  \/ DebugPrint
  \/ CheckParsed
  \/ Finally
  \/ Except

UploadSpec == UploadInit /\ [][UploadNext]_vars

(***************************************************************************)
(* Properties of extract_experience                                        *)
(***************************************************************************)

EntryFields ==
  {"title", "company", "start_date", "end_date", "location", "description"}

\* whether the strategy of this name has run in the call
Tried(name) == \E k \in 1..Len(tried) : tried[k] = name

\* whether no header synonym occurs in t
NoHeader(t) ==
  \A j \in 1..Len(experience_headers) : ~Contains(Upper(t), experience_headers[j])

\* whether some candidate of the call has a positive score
Located == \E k \in 1..Len(potential_sections) : potential_sections[k].score > 0

\* C1: for every input extract_experience never raises, and what it returns is
\* a finite sequence of entries, the empty one for the empty string
C1_ReturnsNormally ==
  /\ pc # "raised"
  /\ pc = "done" =>
       /\ DOMAIN experience = 1..Len(experience)
       /\ \A k \in 1..Len(experience) : DOMAIN experience[k] = EntryFields
       /\ text = "" => experience = <<>>

\* the call on the empty string has returned the empty list
C1_EmptyStringReturned ==
  pc = "done" /\ text = "" /\ experience = <<>> /\ tried = <<"entire_text">>

\* C2: when the text has no header synonym or no candidate has a positive
\* score, the call returns the whole-text fallback's result on the full text
\* and runs no other strategy
C2_FallbackOnly ==
  (pc = "done" /\ (NoHeader(text) \/ ~Located)) =>
    /\ experience = extract_experience_from_entire_text(text)
    /\ tried = <<"entire_text">>

\* a call whose candidates all score 0 or less has returned entries of the
\* fallback
C2_RejectedSectionReturned ==
  /\ pc = "done"
  /\ Len(potential_sections) > 0
  /\ ~Located
  /\ Len(experience) > 0
  /\ tried = <<"entire_text">>

StrategyNames == <<"pipe_format", "date_first_format", "line_by_line", "entire_text">>

\* what each strategy of the cascade yields, in the cascade's order
StrategyOutputs(block, full_text) ==
  <<extract_with_pipe_format(block),
    extract_with_date_first_format(block),
    extract_with_line_by_line_processing(block),
    extract_experience_from_entire_text(full_text)>>

\* the first strategy with a non-empty output, the last one if there is none
FirstNonEmpty(outs) ==
  IF \E k \in 1..Len(outs) : Len(outs[k]) > 0
  THEN CHOOSE k \in 1..Len(outs) :
         Len(outs[k]) > 0 /\ \A j \in 1..(k - 1) : Len(outs[j]) = 0
  ELSE Len(outs)

\* C3: when a section is located, the strategies run in the order pipe-format,
\* date-first, line-by-line, whole-text fallback, each only if all earlier ones
\* returned nothing, and the call returns the output of the first non-empty one
C3_CascadeOrder ==
  (pc = "done" /\ Located) =>
    LET outs == StrategyOutputs(experience_block, text)
        k == FirstNonEmpty(outs)
    IN  /\ tried = SubSeq(StrategyNames, 1, k)
        /\ experience = outs[k]

\* the cascade's order and result for the calls whose selected block is not
\* empty
CascadeOrderOnNonEmptyBlock ==
  (pc = "done" /\ Located /\ experience_block # "") =>
    LET outs == StrategyOutputs(experience_block, text)
        k == FirstNonEmpty(outs)
    IN  /\ tried = SubSeq(StrategyNames, 1, k)
        /\ experience = outs[k]

\* a call whose selected block is empty runs no strategy and returns nothing
EmptyBlockReturnsNothing ==
  (pc = "done" /\ Located /\ experience_block = "") =>
    tried = <<>> /\ experience = <<>>

\* a call has selected an empty block and returned nothing although the
\* whole-text fallback finds an entry in its text
EmptyBlockSkipsFallback ==
  /\ pc = "done"
  /\ Located
  /\ experience_block = ""
  /\ experience = <<>>
  /\ Len(extract_experience_from_entire_text(text)) > 0

\* C4: in every call in which no block-scoped strategy produces an entry,
\* whatever the selected block, what the call returns is the result of the
\* whole-text fallback on the full text
C4_FallbackWhenBlockFails ==
  (/\ pc = "done"
   /\ Located =>
        /\ Len(extract_with_pipe_format(experience_block)) = 0
        /\ Len(extract_with_date_first_format(experience_block)) = 0
        /\ Len(extract_with_line_by_line_processing(experience_block)) = 0) =>
    experience = extract_experience_from_entire_text(text)

\* whether c is a candidate of t with the maximal score and, among those with
\* that score, at the largest offset
IsBestCandidate(c, t) ==
  LET candidates == ScanHeaders(t, 1)
  IN  /\ \E k \in 1..Len(candidates) : candidates[k] = c
      /\ \A k \in 1..Len(candidates) :
           \/ candidates[k].score < c.score
           \/ candidates[k].score = c.score /\ candidates[k].position <= c.position

\* C5: the locator selects a candidate of maximal score and, among the
\* candidates of that score, the one at the largest character offset
C5_BestCandidate ==
  /\ (pc = "select" /\ Len(potential_sections) > 0) =>
       IsBestCandidate(potential_sections[1], text)
  /\ pc = "block" =>
       \E k \in 1..Len(potential_sections) :
         /\ IsBestCandidate(potential_sections[k], text)
         /\ experience_block = potential_sections[k].text

\* of two candidates with the same, maximal score the later one is selected
C5_TieSelected ==
  /\ pc = "block"
  /\ Len(potential_sections) >= 2
  /\ potential_sections[1].score = potential_sections[2].score
  /\ potential_sections[1].position > potential_sections[2].position
  /\ experience_block = potential_sections[1].text
  /\ experience_block # potential_sections[2].text

\* the parts of the score that do not depend on the keywords
HeaderAndLength(c) ==
  (IF c.header = "PROFESSIONAL EXPERIENCE" THEN 10 ELSE 0)
    + (IF Len(c.text) > 100 THEN 5 ELSE 0)
    - (IF Len(c.text) < 50 THEN 5 ELSE 0)

\* 1 if the keyword occurs in the block, whatever the case of the block
Present(keyword, block) == IF Contains(Lower(block), keyword) THEN 1 ELSE 0

IsJobKeyword(keyword) == \E j \in 1..Len(job_keywords) : job_keywords[j] = keyword

IsSummaryKeyword(keyword) ==
  \E j \in 1..Len(summary_keywords) : summary_keywords[j] = keyword

\* the summary keywords that occur in the block
SummaryKeywordsIn(block) ==
  {j \in 1..Len(summary_keywords) : Contains(Lower(block), summary_keywords[j])}

\* whether both blocks are on the same side of the two length thresholds
SameLengthClass(before, after) ==
  /\ (Len(before) < 50) = (Len(after) < 50)
  /\ (Len(before) > 100) = (Len(after) > 100)

C9_ScenarioAAsStated ==
  (text = ScenarioA /\ Tried("pipe_format")) =>
    experience = <<Entry("Software Engineer", "TechCorp", "Jan 2020", "Present", "")>>

\* C9: on Scenario A the pipe-format strategy yields one entry with title
\* Software Engineer, an empty company, start_date TechCorp, an empty end_date
\* and location Jan 2020 - Present, and the call returns it without running
\* another strategy
C9_ScenarioA ==
  (text = ScenarioA /\ pc # "idle") =>
    /\ Tried("pipe_format") =>
         experience =
           <<Entry("Software Engineer", "", "TechCorp", "", "Jan 2020 - Present")>>
    /\ pc = "done" => tried = <<"pipe_format">>

\* the call on Scenario A has returned the one entry of the pipe-format strategy
C9_ScenarioAReturned ==
  /\ text = ScenarioA
  /\ pc = "done"
  /\ tried = <<"pipe_format">>
  /\ Len(experience) = 1
  /\ experience[1].start_date = "TechCorp"
  /\ experience[1].location = "Jan 2020 - Present"

\* C10: on Scenario B the call reaches the line-by-line strategy, whose comma
\* pattern yields an entry with title Data Analyst, company Acme Corp,
\* start_date January 2021 and end_date March 2022
C10_ScenarioB ==
  (text = ScenarioB /\ pc = "done") =>
    /\ Tried("line_by_line")
    /\ \E k \in 1..Len(experience) :
         /\ experience[k].title = "Data Analyst"
         /\ experience[k].company = "Acme Corp"
         /\ experience[k].start_date = "January 2021"
         /\ experience[k].end_date = "March 2022"

\* what the call on Scenario B returns: the line-by-line strategy is reached,
\* and the company takes the month of the start date
ScenarioBReturns ==
  (text = ScenarioB /\ pc = "done") =>
    /\ tried = <<"pipe_format", "date_first_format", "line_by_line">>
    /\ experience =
         <<Entry("Data Analyst", "Acme Corp January", "2021", "March 2022", "")>>

\* C11: on Scenario C the only candidate comes from the word experience and
\* has a score of 0 or less, so no section is located and the call returns the
\* result of the whole-text fallback on the full text, which is empty
C11_ScenarioC ==
  (text = ScenarioC /\ pc \in {"select", "done"}) =>
    /\ Len(potential_sections) = 1
    /\ potential_sections[1].header = "EXPERIENCE"
    /\ At(Lower(text), potential_sections[1].position) = "e"
    /\ potential_sections[1].score <= 0
    /\ pc = "done" =>
         /\ tried = <<"entire_text">>
         /\ experience = extract_experience_from_entire_text(text)
         /\ experience = <<>>

\* the call on Scenario C has rejected its one candidate and returned nothing
C11_ScenarioCReturned ==
  /\ text = ScenarioC
  /\ pc = "done"
  /\ Len(potential_sections) = 1
  /\ potential_sections[1].text = "in backend development."
  /\ potential_sections[1].score = -5
  /\ experience = <<>>

(***************************************************************************)
(* Properties of concurrent calls                                          *)
(***************************************************************************)

AdjacentWhitespace(s) ==
  \E i \in 0..(Len(s) - 2) : At(s, i) \in Whitespace /\ At(s, i + 1) \in Whitespace

RECURSIVE Keep(_, _)
\* the characters of s that are in chars, in their order
Keep(s, chars) ==
  IF s = "" THEN ""
  ELSE (IF Head(s) \in chars THEN SubSeq(s, 1, 1) ELSE "") \o Keep(Tail(s), chars)

RECURSIVE Drop(_, _)
\* the characters of s that are not in chars, in their order
Drop(s, chars) ==
  IF s = "" THEN ""
  ELSE (IF Head(s) \in chars THEN "" ELSE SubSeq(s, 1, 1)) \o Drop(Tail(s), chars)

\* C13: the output of clean_text has every run of whitespace replaced by one
\* space and both ends trimmed: it contains no newline and no two adjacent
\* whitespace characters
C13_NoAdjacentWhitespace ==
  pc = "cleaned" =>
    /\ ~Contains(text, "\n")
    /\ ~AdjacentWhitespace(text)
    /\ text = Strip(text)

\* what holds of the whitespace of the output: it is trimmed and every
\* whitespace character in it is a space
CleanedWhitespaceIsSpace ==
  pc = "cleaned" =>
    /\ text = Strip(text)
    /\ \A i \in 0..(Len(text) - 1) : At(text, i) \in Whitespace => At(text, i) = " "

\* a character removed between two spaces has left the two spaces side by side
CleanedHasDoubleSpace ==
  /\ pc = "cleaned"
  /\ raw_text = Str(SpecialBetweenSpaces)
  /\ text = "C++  C: 50 (remote)"

\* C14: the output of clean_text keeps the word characters and the characters
\* - . @ ( ) + , : ; of the input in their order and has no other
\* non-whitespace character; for an empty or None input it is the empty string
C14_KeptCharacters ==
  pc = "cleaned" =>
    /\ Drop(text, {" ", "\t", "\n", "\r", "\f"})
         = Keep(raw_text.value,
                {"a", "b", "c", "d", "e", "f", "g", "h", "i", "j", "k", "l", "m",
                 "n", "o", "p", "q", "r", "s", "t", "u", "v", "w", "x", "y", "z",
                 "A", "B", "C", "D", "E", "F", "G", "H", "I", "J", "K", "L", "M",
                 "N", "O", "P", "Q", "R", "S", "T", "U", "V", "W", "X", "Y", "Z",
                 "0", "1", "2", "3", "4", "5", "6", "7", "8", "9", "_",
                 "-", ".", "@", "(", ")", "+", ",", ":", ";"})
    /\ (raw_text = None \/ raw_text = Str("")) => text = ""

\* the text of test_clean_text_special_chars has come through unchanged
C14_SpecialCharsKept ==
  /\ pc = "cleaned"
  /\ raw_text = Str(TestSpecialChars)
  /\ text = TestSpecialChars

(***************************************************************************)
(* Properties of the candidates of the locator                             *)
(***************************************************************************)

\* the offsets of s at which one of the four markers stands, as written
MarkerOffsets(s) ==
  {i \in 0..Len(s) :
     \/ StartsAt(s, "Education", i)
     \/ StartsAt(s, "Skills", i)
     \/ StartsAt(s, "Projects", i)
     \/ StartsAt(s, "Certifications", i)}

\* C15: the block of a candidate is the text after the header up to the
\* earliest marker Education, Skills, Projects or Certifications written
\* exactly so, or the rest of the text when none follows, with the whitespace
\* at both ends trimmed
C15_BlockUpToMarker ==
  \A k \in 1..Len(potential_sections) :
    LET c == potential_sections[k]
        after == From(text, c.position + Len(c.header))
        marks == MarkerOffsets(after)
    IN  c.text =
          Strip(IF marks = {} THEN after
                ELSE Slice(after, 0, CHOOSE i \in marks : \A j \in marks : i <= j))

\* the block of Scenario A runs over the EDUCATION in capitals to the end of
\* the text
C15_CapitalsDoNotEnd ==
  /\ pc = "select"
  /\ text = ScenarioA
  /\ potential_sections[1].header = "PROFESSIONAL EXPERIENCE"
  /\ potential_sections[1].text =
       "Software Engineer | TechCorp (Jan 2020 - Present)\nEDUCATION\n..."

\* the block of a candidate ends before the marker Education
BlockEndsAtMarker ==
  /\ pc = "select"
  /\ text = TwoSections
  /\ \E k \in 1..Len(potential_sections) :
       /\ potential_sections[k].position = 0
       /\ potential_sections[k].text = "manager engineer developer"

\* the pairs of a header and an offset of the candidates collected
CandidateOffsets ==
  {<<potential_sections[k].header, potential_sections[k].position>> :
     k \in 1..Len(potential_sections)}

\* the pairs of a header and an offset at which the upper-cased text has it
HeaderOffsets(t) ==
  {p \in {experience_headers[j] : j \in 1..Len(experience_headers)}
           \X (0..Len(Upper(t))) :
     StartsAt(Upper(t), p[1], p[2])}

\* C16: the scan comes to its end on every text, and it has then recorded
\* exactly one candidate for each header and each offset at which the
\* upper-cased text has that header, occurrences that overlap included
C16_ScanTerminatesComplete ==
  /\ [](Cardinality(CandidateOffsets) = Len(potential_sections))
  /\ [](pc = "scanned" => CandidateOffsets = HeaderOffsets(text))
  /\ <>(pc = "scanned")

\* the scan has ended with both occurrences of EXPERIENCE that share the E
C16_OverlappingRecorded ==
  /\ pc = "scanned"
  /\ text = OverlappingHeaders
  /\ CandidateOffsets = {<<"EXPERIENCE", 0>>, <<"EXPERIENCE", 9>>}
  /\ Len(potential_sections) = 2

\* the candidates the loop collects are those of the operator ScanHeaders, in
\* the same order
ScanAgreesWithScanHeaders ==
  pc = "scanned" => potential_sections = ScanHeaders(text, 1)

\* the candidates stand at offsets of the original text at which their header
\* is written in some case
PositionsInOriginal ==
  \A k \in 1..Len(potential_sections) :
    LET c == potential_sections[k]
    IN  /\ c.position + Len(c.header) <= Len(text)
        /\ Upper(Slice(text, c.position, c.position + Len(c.header))) = c.header
        /\ c.text = SectionText(text, c.header, c.position)

\* C17: the position of every candidate is an offset of the original text at
\* which its header occurs case-insensitively, and its block starts right
\* after that occurrence, whatever characters the text holds
C17_PositionsInOriginal == PositionsInOriginal

\* where upper-casing keeps the length of the text, the positions found in the
\* upper-cased copy are positions of the original
PositionsInOriginalWithoutSharpS == ~Contains(text, SharpS) => PositionsInOriginal

\* the header behind the sharp s is recorded one character too far to the right
SharpSShiftsPosition ==
  /\ pc = "scanned"
  /\ text = SharpSBeforeHeader
  /\ Len(potential_sections) = 1
  /\ potential_sections[1].position = 10
  /\ Find(text, "Experience", 0) = 9
  /\ potential_sections[1].text = "Dev"

(***************************************************************************)
(* Properties of the pipe format                                           *)
(***************************************************************************)

\* the title/company segment of a line: the text before the bar
TitleCompanySegment(block) == Strip(Slice(block, 0, Find(block, "|", 0)))

\* the text between the bar and the opening parenthesis
DateRangeText(block) ==
  Strip(Slice(block, Find(block, "|", 0) + 1, Find(block, "(", 0)))

\* the text inside the parentheses
Parenthesised(block) ==
  Slice(block, Find(block, "(", 0) + 1, Find(block, ")", 0))

\* the line with other text inside its parentheses
WithParenthesised(block, location) ==
  Slice(block, 0, Find(block, "(", 0) + 1) \o location \o ")"

\* title and company are the segment cut at its first double space
SplitAtFirstDoubleSpace ==
  \A k \in 1..Len(experience) :
    LET seg == TitleCompanySegment(experience_block)
        p == Find(seg, "  ", 0)
    IN  IF p # -1
        THEN /\ experience[k].title = Strip(Slice(seg, 0, p))
             /\ experience[k].company = Strip(From(seg, p + 2))
        ELSE /\ experience[k].title = seg
             /\ experience[k].company = ""

\* C18: with a double space in the title/company segment, title is the part
\* before the first double space and company is the whole remainder after it;
\* without one, title is the whole segment and company is empty
C18_SplitAtFirstDoubleSpace == pc = "piped" => SplitAtFirstDoubleSpace

\* the same for the segments that split('  ') cuts into at most two parts
SplitAtOnlyDoubleSpace ==
  (pc = "piped" /\ Len(Split(TitleCompanySegment(experience_block), "  ")) <= 2)
    => (Len(experience) = 1 /\ SplitAtFirstDoubleSpace)

\* with two double spaces the company is the part between them
SecondPartIsCompany ==
  /\ pc = "piped"
  /\ TitleCompanySegment(experience_block) = "Senior Engineer  Acme Corp  Berlin"
  /\ experience[1].title = "Senior Engineer"
  /\ experience[1].company = "Acme Corp"

\* C19: a date range with Present gives the text before its first hyphen and
\* Present; any other range gives its two parts when splitting on the hyphen
\* gives exactly two, and else the whole range and an empty end date
C19_DateRangeParsed ==
  pc = "piped" =>
    /\ Len(experience) = 1
    /\ LET dr == DateRangeText(experience_block)
           dash == Find(dr, "-", 0)
       IN  IF Contains(dr, "Present")
           THEN /\ experience[1].start_date =
                     Strip(IF dash = -1 THEN dr ELSE Slice(dr, 0, dash))
                /\ experience[1].end_date = "Present"
           ELSE IF Len(Split(dr, "-")) = 2
           THEN /\ experience[1].start_date = Strip(Slice(dr, 0, dash))
                /\ experience[1].end_date = Strip(From(dr, dash + 1))
           ELSE /\ experience[1].start_date = dr
                /\ experience[1].end_date = ""

\* a range with Present and two hyphens, and a range of three parts
C19_PresentWithTwoHyphens ==
  /\ pc = "piped"
  /\ DateRangeText(experience_block) = "Jan-2020 - Present"
  /\ experience[1].start_date = "Jan"
  /\ experience[1].end_date = "Present"

\* a range without Present that splits into more than two parts
ThreePartRangeKeptWhole ==
  /\ pc = "piped"
  /\ DateRangeText(experience_block) = "Jan-2019 - Mar-2021"
  /\ experience[1].start_date = "Jan-2019 - Mar-2021"
  /\ experience[1].end_date = ""

\* C20: location is the text inside the parentheses of the line, and the
\* dates come from the text between the bar and the opening parenthesis
\* alone: any other text inside the parentheses gives the same dates
C20_LocationParenthesised ==
  pc = "piped" =>
    /\ Len(experience) = 1
    /\ experience[1].location = Strip(Parenthesised(experience_block))
    /\ \A location \in PipeLocations :
         LET other == extract_with_pipe_format(
                        WithParenthesised(experience_block, location))
         IN  /\ Len(other) = 1
             /\ other[1].location = location
             /\ other[1].start_date = experience[1].start_date
             /\ other[1].end_date = experience[1].end_date

\* dates written inside the parentheses are the location and not the dates
C20_DatesInParenthesesAreLocation ==
  /\ pc = "piped"
  /\ DateRangeText(experience_block) = "TechCorp"
  /\ Parenthesised(experience_block) = "2019 - Present"
  /\ experience[1].location = "2019 - Present"
  /\ experience[1].start_date = "TechCorp"
  /\ experience[1].end_date = ""

(***************************************************************************)
(* Properties of the strategies                                            *)
(***************************************************************************)

\* the lines of the block
BlockLines == Split(experience_block, "\n")

\* a year as the date-first patterns write it
IsYear(s) ==
  s = "20XX" \/ (Len(s) = 4 /\ \A i \in 0..3 : At(s, i) \in Digits)

\* the line begins with the start date of the entry, followed by its end date,
\* and holds the rest of the entry
BeginsWithDatesOf(line, entry) ==
  /\ StartsWith(line, entry.start_date)
  /\ At(line, Len(entry.start_date)) \in Whitespace
  /\ StartsWith(Strip(From(line, Len(entry.start_date))), entry.end_date)
  /\ Contains(line, entry.title)
  /\ Contains(line, entry.company)
  /\ Contains(line, entry.location)

\* every entry is that of a line that begins with a year and Present or a
\* second year
EntriesOfLinesWithYearFirst ==
  \A k \in 1..Len(experience) :
    /\ IsYear(experience[k].start_date)
    /\ experience[k].end_date = "Present" \/ IsYear(experience[k].end_date)
    /\ \E j \in 1..Len(BlockLines) : BeginsWithDatesOf(BlockLines[j], experience[k])

\* C21: every entry of the date-first strategy comes from a match that starts
\* at the beginning of a line with a year followed on that line by Present or
\* a second year; a year inside a line and a match over several lines give
\* no entry
C21_YearAtLineStart == pc = "dated" => EntriesOfLinesWithYearFirst

\* a block of one line that begins with a year gives only such entries
YearAtStartOfOnlyLine ==
  (pc = "dated" /\ Len(BlockLines) = 1 /\ At(experience_block, 0) \in Digits)
    => EntriesOfLinesWithYearFirst

\* the year inside the line gives an entry
YearInsideLineGivesEntry ==
  /\ pc = "dated"
  /\ experience_block = YearMidLine
  /\ Len(experience) = 1
  /\ experience[1].start_date = "2020"
  /\ experience[1].location = "Paris"

\* the match that goes on in the next line gives an entry
MatchOverTwoLinesGivesEntry ==
  /\ pc = "dated"
  /\ experience_block = YearsLine \o "\n" \o ContinuationLine
  /\ Len(experience) = 1
  /\ experience[1].location = "Oslo"

\* the words that mark a line as a description
DescriptionWords ==
  {"Developed", "Built", "Integrated", "Increased", "Deployed", "Handled",
   "Summarize", "responsibilities", "passionate", "building"}

\* a line that, trimmed, starts with a bullet or a hyphen, is longer than 100
\* characters or holds one of the words
ReadsAsDescription(line) ==
  \/ StartsWith(Strip(line), Bullet)
  \/ StartsWith(Strip(line), "-")
  \/ Len(Strip(line)) > 100
  \/ \E word \in DescriptionWords : Contains(Strip(line), word)

RECURSIVE JoinLines(_)
\* the lines put together again
JoinLines(lines) ==
  IF Len(lines) = 0 THEN ""
  ELSE IF Len(lines) = 1 THEN lines[1]
  ELSE lines[1] \o "\n" \o JoinLines(Tail(lines))

\* the block without the lines that read as descriptions
OtherLines(block) ==
  JoinLines(SelectSeq(Split(block, "\n"), LAMBDA line : ~ReadsAsDescription(line)))

\* C22: a line that starts with a bullet or a hyphen, is longer than 100
\* characters or holds one of the description words never produces an entry:
\* the line-by-line strategy returns what it returns for the other lines
C22_DescriptionLinesGiveNothing ==
  pc = "lined" =>
    experience = extract_with_line_by_line_processing(OtherLines(experience_block))

\* a line with Built in front of a line that gives an entry, and the line with
\* Built has the format "JobTitle - Company"
C22_BuiltLineSkipped ==
  /\ pc = "lined"
  /\ experience_block = BuiltLine \o "\n" \o DashLine
  /\ Search(pattern5, 2, BuiltLine, 0).ok
  /\ Len(experience) = 1
  /\ experience[1].title = "Sales Assistant"

\* the line of 100 characters gives an entry, the line of 101 gives none
LongLineSkipped ==
  /\ pc = "lined"
  /\ experience_block = LongLine \o "\n" \o FullLine
  /\ Len(LongLine) = 101
  /\ Len(FullLine) = 100
  /\ Len(experience) = 1
  /\ experience[1].company = "Acme Corp"

\* the entry of a line according to the first pattern, in the order pattern3,
\* pattern4, pattern5, that matches the line and accepts its fields
FirstAcceptedEntry(raw_line) ==
  LET line == Strip(raw_line)
      match3 == Search(pattern3, 4, line, 0)
      match4 == Search(pattern4, 4, line, 0)
      match5 == Search(pattern5, 2, line, 0)
  IN  IF line = "" \/ IsDescriptionLine(line) THEN <<>>
      ELSE IF match3.ok /\ Pattern3Entry(line, match3) # <<>>
      THEN Pattern3Entry(line, match3)
      ELSE IF match4.ok /\ Pattern4Entry(line, match4) # <<>>
      THEN Pattern4Entry(line, match4)
      ELSE IF match5.ok /\ Pattern5Entry(line, match5) # <<>>
      THEN Pattern5Entry(line, match5)
      ELSE <<>>

\* C23: each line that is not skipped is tested against pattern3, pattern4 and
\* pattern5 in this order, and its entry is that of the first of them that
\* matches the line and passes its acceptance guard
C23_FirstAcceptedPatternWins ==
  pc = "lined" => experience = FlatMap(FirstAcceptedEntry, BlockLines)

\* pattern3 matches the line and rejects its title of three characters; the
\* line gives no entry although pattern5 matches it and accepts its fields
RejectedMatchEndsLine ==
  /\ pc = "lined"
  /\ experience_block = ShortTitleCommaLine
  /\ experience = <<>>
  /\ Search(pattern3, 4, ShortTitleCommaLine, 0).ok
  /\ Pattern5Entry(ShortTitleCommaLine, Search(pattern5, 2, ShortTitleCommaLine, 0))
       = <<Entry("Dev, Senior Engineer Acme", "Hooli", "", "", "")>>

\* on the lines whose first matching pattern accepts them, or that no pattern
\* matches, the order of the patterns decides
FirstMatchAccepted ==
  (pc = "lined" /\ ~Contains(experience_block, ShortTitleCommaLine))
    => experience = FlatMap(FirstAcceptedEntry, BlockLines)

\* the roles a title of the dash-only pattern must name
LineRoles == {"Intern", "Developer", "Engineer", "Manager", "Assistant", "Specialist"}

\* the entry is that of a line that only the dash-only pattern matches
OfDashOnlyLine(entry) ==
  \E j \in 1..Len(BlockLines) :
    LET line == Strip(BlockLines[j])
    IN  /\ Contains(line, entry.title)
        /\ Contains(line, entry.company)
        /\ ~Search(pattern3, 4, line, 0).ok
        /\ ~Search(pattern4, 4, line, 0).ok

\* C24: every entry of the line-by-line strategy has a title of more than 3
\* characters and a company of more than 3 and fewer than 50 characters, and
\* an entry without dates, of the dash-only pattern, names a role in its title
C24_AcceptedFields ==
  pc = "lined" =>
    \A k \in 1..Len(experience) :
      /\ Len(experience[k].title) > 3
      /\ Len(experience[k].company) > 3
      /\ Len(experience[k].company) < 50
      /\ (/\ experience[k].start_date = ""
          /\ experience[k].end_date = ""
          /\ OfDashOnlyLine(experience[k]))
           => \E role \in LineRoles : Contains(experience[k].title, role)

\* the company of 49 characters is accepted, that of 50 is not
C24_LongestCompanyAccepted ==
  /\ pc = "lined"
  /\ experience_block = Company50Line \o "\n" \o Company49Line
  /\ Len(experience) = 1
  /\ experience[1].title = "Sales Manager"
  /\ Len(experience[1].company) = 49
  /\ experience[1].start_date = ""

\* the line without a role in its title gives no entry
NoRoleNoEntry ==
  /\ pc = "lined"
  /\ experience_block = NoRoleLine
  /\ experience = <<>>

\* the roles a title of the whole-text fallback must name
FallbackRoles == {"Intern", "Developer", "Engineer", "Manager"}

\* C25: every entry of the whole-text fallback has a title that contains one
\* of Intern, Developer, Engineer, Manager
C25_FallbackTitlesNameRole ==
  pc = "searched" =>
    \A k \in 1..Len(experience) :
      \E role \in FallbackRoles : Contains(experience[k].title, role)

\* the fallback returns the intern of the parenthesised line
C25_InternReturned ==
  /\ pc = "searched"
  /\ experience_block = ParenLine
  /\ Len(experience) = 1
  /\ experience[1].title = "Marketing Intern"

\* the assistant of the dash line is not returned
AssistantNotReturned ==
  /\ pc = "searched"
  /\ experience_block = DashLine
  /\ experience = <<>>

\* the matches of "Title - Company (Month YYYY - Present)" in the block
ParenthesisedMatches == FindAll(job_pattern_resume4, 3, experience_block)

\* C26: a match of the pattern "Title - Company (Month YYYY - Present)" whose
\* title names a role gives an entry of the fallback with the match's start
\* date and the end date Present
C26_ParenthesisedMatchGivesEntry ==
  pc = "searched" =>
    \A m \in 1..Len(ParenthesisedMatches) :
      (\E role \in FallbackRoles : Contains(ParenthesisedMatches[m][1], role))
        => \E k \in 1..Len(experience) :
             /\ experience[k].start_date = Strip(ParenthesisedMatches[m][3])
             /\ experience[k].end_date = "Present"

\* the parenthesised line is matched, and its only entry has no dates
ParenthesisedMatchWithoutDates ==
  /\ pc = "searched"
  /\ experience_block = ParenLine
  /\ Len(ParenthesisedMatches) = 1
  /\ ParenthesisedMatches[1][3] = "June 2020"
  /\ Len(experience) = 1
  /\ experience[1].start_date = ""
  /\ experience[1].end_date = ""

\* what stands between a title and its company in the formats
TitleCompanySeparators == {"", " ", "  ", "    ", ", ", " - "}

\* the offsets of the block at which the title of an entry is followed, after
\* a separator, by its company
SourcePositions(entry) ==
  {p \in 0..Len(experience_block) :
     \E sep \in TitleCompanySeparators :
       LET source == entry.title \o sep \o entry.company
       IN  /\ p + Len(source) <= Len(experience_block)
           /\ SubSeq(experience_block, p + 1, p + Len(source)) = source}

\* where the text of an entry occurs in the block, -1 if nowhere
SourcePosition(entry) ==
  IF SourcePositions(entry) = {} THEN -1
  ELSE CHOOSE p \in SourcePositions(entry) :
         \A q \in SourcePositions(entry) : p <= q

\* the line of the block an offset lies in
LineIndex(pos) == Len(Split(SubSeq(experience_block, 1, pos), "\n"))

\* a strategy has returned
Returned == pc \in {"piped", "dated", "lined", "searched"}

\* C27: entries appear in the order in which their text occurs in the block,
\* and the line-by-line strategy returns at most one entry of a line
C27_DocumentOrder ==
  Returned =>
    \A k, l \in 1..Len(experience) :
      k < l =>
        /\ SourcePosition(experience[k]) >= 0
        /\ SourcePosition(experience[k]) < SourcePosition(experience[l])
        /\ pc = "lined" => LineIndex(SourcePosition(experience[k]))
                             < LineIndex(SourcePosition(experience[l]))

\* the pattern of a regular-expression strategy an entry is of, by its dates
PatternRank(entry) ==
  IF pc = "dated" THEN (IF entry.end_date = "Present" THEN 1 ELSE 2)
  ELSE IF pc = "searched" THEN (IF entry.start_date # "" THEN 1 ELSE 3)
  ELSE 1

\* C27 as amended: entries appear pattern by pattern in the order the strategy
\* scans its patterns, and in the order of their text within one pattern; the
\* line-by-line strategy returns at most one entry of a line, in line order
C27_PatternThenDocumentOrder ==
  Returned =>
    \A k, l \in 1..Len(experience) :
      k < l =>
        /\ SourcePosition(experience[k]) >= 0
        /\ PatternRank(experience[k]) <= PatternRank(experience[l])
        /\ PatternRank(experience[k]) = PatternRank(experience[l])
             => SourcePosition(experience[k]) < SourcePosition(experience[l])
        /\ pc = "lined" => LineIndex(SourcePosition(experience[k]))
                             < LineIndex(SourcePosition(experience[l]))

\* the entry that ends at Present is returned first although its line is last
C27_LaterLineFirst ==
  /\ pc = "dated"
  /\ experience_block = YearsLine \o "\n" \o DateFirstLine
  /\ Len(experience) = 2
  /\ experience[1].end_date = "Present"
  /\ experience[2].end_date = "2019"
  /\ SourcePosition(experience[1]) > SourcePosition(experience[2])

\* two lines give two entries in line order
TwoLinesInLineOrder ==
  /\ pc = "lined"
  /\ Len(experience) = 2
  /\ LineIndex(SourcePosition(experience[1])) = 1
  /\ LineIndex(SourcePosition(experience[2])) = 2

\* two pipe lines give two entries in match order
TwoPipeMatchesInOrder ==
  /\ pc = "piped"
  /\ Len(experience) = 2
  /\ SourcePosition(experience[1]) < SourcePosition(experience[2])

\* the fallback returns the entry with dates first although its line is last
FallbackLaterLineFirst ==
  /\ pc = "searched"
  /\ experience_block = ParenLine \o "\n" \o Resume3Line
  /\ Len(experience) = 2
  /\ experience[1].start_date = "June 20XX"
  /\ SourcePosition(experience[1]) > SourcePosition(experience[2])

\* C28: the score of every candidate lies in -20..29: the bonus of the job
\* keywords is at most 14, the penalty of the summary keywords at most 15,
\* and no block has both the bonus and the penalty of its length
C28_ScoreInRange ==
  \A k \in 1..Len(potential_sections) :
    LET candidate == potential_sections[k]
        length_adjustment ==
          candidate.score
            - (IF candidate.header = "PROFESSIONAL EXPERIENCE" THEN 10 ELSE 0)
            - KeywordCount(job_keywords, candidate.text) * 2
            + KeywordCount(summary_keywords, candidate.text) * 3
    IN  /\ candidate.score \in -20..29
        /\ KeywordCount(job_keywords, candidate.text) * 2 <= 14
        /\ KeywordCount(summary_keywords, candidate.text) * 3 <= 15
        /\ length_adjustment \in {-5, 0, 5}

\* a candidate scores 29
C28_HighestScore ==
  /\ pc = "scored"
  /\ \E k \in 1..Len(potential_sections) :
       /\ potential_sections[k].score = 29
       /\ potential_sections[k].header = "PROFESSIONAL EXPERIENCE"
       /\ Len(potential_sections[k].text) > 100

\* a candidate scores -20
LowestScore ==
  /\ pc = "scored"
  /\ \E k \in 1..Len(potential_sections) :
       /\ potential_sections[k].score = -20
       /\ Len(potential_sections[k].text) < 50

\* C29: the text clean_text hands on contains no vertical bar and no newline,
\* so the pipe-format strategy returns no entry of it and the line-by-line
\* strategy sees it as a single line
C29_CleanedTextHasNoPipeLines ==
  pc = "cleaned" =>
    /\ ~Contains(text, "|")
    /\ ~Contains(text, "\n")
    /\ extract_with_pipe_format(text) = <<>>
    /\ Len(Split(text, "\n")) = 1

\* the pipe line of the file gives an entry before the cleaning, none after it
C29_PipeLineLost ==
  /\ pc = "cleaned"
  /\ raw_text = Str(PipeRawText)
  /\ Len(extract_with_pipe_format(raw_text.value)) = 1
  /\ Len(Split(raw_text.value, "\n")) = 3
  /\ text = "EXPERIENCE Software Engineer  Jan 2020 - Present (Remote) Built tools"
  /\ extract_with_pipe_format(text) = <<>>

\* upload_resume has ended after parse_resume returned None
EndedWithoutParsedData == pc = "ended" /\ parsed_data = None

\* C30: when parse_resume returns None, upload_resume ends with the HTTP 500
\* error whose detail is "Failed to parse resume. ..." and the temporary file
\* is deleted
C30_FailedToParseRaised ==
  EndedWithoutParsedData =>
    /\ raised = HTTPException(500, FailedToParse)
    /\ temp_file_path.value \notin temp_files

\* what holds instead: the error is a 500 that wraps the AttributeError of the
\* debug print, and the temporary file is deleted
AttributeErrorWrapped ==
  EndedWithoutParsedData =>
    /\ raised = HTTPException(500, "Internal server error: "
                                     \o NoneTypeHasNoExperience)
    /\ response = None
    /\ temp_file_path.value \notin temp_files

\* no request ends with the detail of lines 118-121
FailedToParseNeverRaised ==
  ~(raised.type = "HTTPException" /\ raised.detail = FailedToParse)

\* a request has ended after parse_resume returned None for a file without text
EndedForFileWithoutText ==
  /\ EndedWithoutParsedData
  /\ raw_text = None
  /\ temp_file_path # None
  /\ raised.status_code = 500
  /\ temp_files = {}

\* every request that ends leaves no temporary file
TempFileDeleted == pc = "ended" => temp_files = {}

\* a request has ended after a step of parse_resume raised on a resume with an
\* experience entry
EndedAfterStepRaised ==
  /\ EndedWithoutParsedData
  /\ Truthy(raw_text)
  /\ Len(experience) > 0

\* a request has ended with the response of a parsed resume
EndedWithResponse ==
  /\ pc = "ended"
  /\ raised = None
  /\ response # None
  /\ Len(response.parsed_data.experience) > 0
  /\ temp_files = {}
====
